---- MODULE Spec2Model ----
(***************************************************************************)
(* Credential lifecycle of adk-python: the in-memory credential store,     *)
(* the authenticated tool wrappers and the Credential Manager they gate    *)
(* tool execution on.                                                      *)
(***************************************************************************)
EXTENDS Integers, Sequences, FiniteSets, TLC

VARIABLES
  store,     \* InMemoryCredentialService._store: app -> user -> key -> credential
  call,      \* the last store call made directly on the service: arguments and outcome
  written,   \* per scope key, the values handed to save_credential so far and the last one
  calls,     \* number of direct store calls made so far
  tool,      \* the authenticated tool under test, as its constructor left it
  inv,       \* per invocation of tool.run_async: its position and local state
  now,       \* the clock expiry is compared with
  issued,    \* number of access tokens the token endpoints have issued so far
  fn,        \* the last call of a helper made on its own: name, arguments, outcome
  tasks,     \* store calls made as concurrent tasks of the event loop: arguments, outcome
  webApp     \* the FastAPI application of get_fast_api_app and the requests it has answered

storeVars == <<store, call, written, calls, tasks>>
toolVars == <<tool, inv, now, issued, fn>>
vars == <<store, call, written, calls, tasks, tool, inv, now, issued, fn, webApp>>

\* ------------------------------------------------------------------ bounds
\* direct calls on the credential service
MaxCalls == 3
\* credentials a consent flow delivers into the store
MaxDeliveries == 1
\* run_async invocations of the tool
NumInvocations == 2
\* last clock value
MaxTime == 2
\* access tokens the token endpoints issue
MaxTokens == 2
\* store calls created as concurrent tasks
MaxTasks == 3
\* requests a client sends to the application
MaxRequests == 3

\* ------------------------------------------------------------------ values
\* Python's None, where a string is expected
None == "None"
\* The exception a dict subscript raises on a missing key
KeyError == "KeyError"

Apps == {"app1", "app2"}
Users == {"user1", "user2"}
Keys == {"key1", "key2"}
Scopes == Apps \X Users \X Keys

\* AuthCredential values: auth_type plus the OAuth2 payload fields the
\* lifecycle reads.
Cred(type, at, rt, exp) ==
  [auth_type |-> type, access_token |-> at, refresh_token |-> rt, expires_at |-> exp]

\* expires_at = None
NoExpiry == 0

\* Python's None, where an AuthCredential is expected
NoCredential == Cred("None", None, None, NoExpiry)

\* Margin before expires_at within which an OAuth2 credential counts as stale
SafetyMargin == 1
\* Lifetime of an access token a token endpoint issues
TokenLifetime == 2
\* An expires_at no clock value of the model comes within the margin of
FarFuture == MaxTime + SafetyMargin + 1

CredA == Cred("OAUTH2", "t1", "rt", NoExpiry)
CredB == Cred("OAUTH2", "t2", None, NoExpiry)
RawCred == Cred("OAUTH2", None, None, NoExpiry)

\* What a direct caller may hand to save_credential as exchanged_auth_credential
StoreCreds == {CredA, CredB, NoCredential}

\* ------------------------------------------------------------------ dicts
EmptyDict == <<>>

\* d[k] = v
DictSet(d, k, v) == [x \in (DOMAIN d) \cup {k} |-> IF x = k THEN v ELSE d[x]]

\* d.get(k), for a dict of credentials
DictGet(d, k) == IF k \in DOMAIN d THEN d[k] ELSE NoCredential

\* ------------------------------------------------------------------ store
ToolContext(app, user) == [app_name |-> app, user_id |-> user]

AuthConfig(scheme, raw, exchanged, key) ==
  [auth_scheme |-> scheme, raw_auth_credential |-> raw,
   exchanged_auth_credential |-> exchanged, credential_key |-> key]

\* _get_storage_for_current_context without the two membership tests
GetStorageNoCreate(st, tool_context) ==
  LET app_name == tool_context.app_name
      user_id == tool_context.user_id
      found == app_name \in DOMAIN st /\ user_id \in DOMAIN st[app_name]
  IN [store |-> st, storage |-> IF found THEN st[app_name][user_id] ELSE EmptyDict,
      app |-> app_name, raised |-> IF found THEN None ELSE KeyError]

\* _get_storage_for_current_context that keys the containers by user only
GetStorageIgnoreApp(st, tool_context) ==
  LET user_id == tool_context.user_id
      s1 == IF "app1" \notin DOMAIN st THEN DictSet(st, "app1", EmptyDict) ELSE st
      s2 == IF user_id \notin DOMAIN s1["app1"]
              THEN DictSet(s1, "app1", DictSet(s1["app1"], user_id, EmptyDict))
              ELSE s1
  IN [store |-> s2, storage |-> s2["app1"][user_id], app |-> "app1", raised |-> None]

\* _get_storage_for_current_context that makes a new per-app container on
\* every call (self._store[app_name] = {} without the membership test)
GetStorageRecreateApp(st, tool_context) ==
  LET app_name == tool_context.app_name
      user_id == tool_context.user_id
      s1 == DictSet(st, app_name, EmptyDict)
      s2 == DictSet(s1, app_name, DictSet(s1[app_name], user_id, EmptyDict))
  IN [store |-> s2, storage |-> s2[app_name][user_id], app |-> app_name,
      raised |-> None]

\* _get_storage_for_current_context: the per-(app, user) dict, created on
\* first use; returns the store after the creation and the dict.
GetStorageForCurrentContext(st, tool_context) ==
  LET app_name == tool_context.app_name
      user_id == tool_context.user_id
      s1 == IF app_name \notin DOMAIN st THEN DictSet(st, app_name, EmptyDict) ELSE st
      s2 == IF user_id \notin DOMAIN s1[app_name]
              THEN DictSet(s1, app_name, DictSet(s1[app_name], user_id, EmptyDict))
              ELSE s1
  IN [store |-> s2, storage |-> s2[app_name][user_id], app |-> app_name,
      raised |-> None]

\* storage with key removed
DictPop(d, k) == [x \in (DOMAIN d) \ {k} |-> d[x]]

\* load_credential that takes the entry out of the store (storage.pop)
LoadCredentialPop(st, auth_config, tool_context) ==
  LET g == GetStorageForCurrentContext(st, tool_context)
  IN [store |-> DictSet(g.store, g.app,
                  DictSet(g.store[g.app], tool_context.user_id,
                          DictPop(g.storage, auth_config.credential_key))),
      ret |-> DictGet(g.storage, auth_config.credential_key),
      raised |-> None]

\* load_credential that falls back to the AuthConfig's exchanged credential
\* (storage.get(key, auth_config.exchanged_auth_credential))
LoadCredentialOrExchanged(st, auth_config, tool_context) ==
  LET g == GetStorageForCurrentContext(st, tool_context)
  IN [store |-> g.store,
      ret |-> IF auth_config.credential_key \in DOMAIN g.storage
                THEN g.storage[auth_config.credential_key]
                ELSE auth_config.exchanged_auth_credential,
      raised |-> None]

\* load_credential that looks the entry up by the user id instead of the
\* credential key (storage.get(user_id))
LoadCredentialByUser(st, auth_config, tool_context) ==
  LET g == GetStorageForCurrentContext(st, tool_context)
  IN [store |-> g.store, ret |-> DictGet(g.storage, tool_context.user_id),
      raised |-> None]

\* load_credential: [store after the call, value returned, raised]
LoadCredential(st, auth_config, tool_context) ==
  LET g == GetStorageForCurrentContext(st, tool_context)
  IN IF g.raised # None
       THEN [store |-> g.store, ret |-> NoCredential, raised |-> g.raised]
       ELSE [store |-> g.store, ret |-> DictGet(g.storage, auth_config.credential_key),
             raised |-> None]

\* storage[key] = value that is lost: only the containers are created
StorageSetDropped(st, g, user_id, key, value) == g.store

\* storage.setdefault(key, value): an entry that exists is kept
StorageSetDefault(st, g, user_id, key, value) ==
  IF g.raised # None
    THEN st
    ELSE DictSet(g.store, g.app,
           DictSet(g.store[g.app], user_id,
                   IF key \in DOMAIN g.storage THEN g.storage
                   ELSE DictSet(g.storage, key, value)))

\* storage[key + "/" + access token] = value: one entry per credential saved
StorageSetPerCredential(st, g, user_id, key, value) ==
  IF g.raised # None
    THEN st
    ELSE DictSet(g.store, g.app,
           DictSet(g.store[g.app], user_id,
                   DictSet(g.storage, key \o "/" \o value.access_token, value)))

\* storage[key] = value, storage being the dict _get_storage_for_current_context
\* returned (g); a raise in it leaves the store as it was
StorageSet(st, g, user_id, key, value) ==
  IF g.raised # None
    THEN st
    ELSE DictSet(g.store, g.app,
           DictSet(g.store[g.app], user_id, DictSet(g.storage, key, value)))

\* save_credential that writes nothing when the AuthConfig has no exchanged credential
SaveCredentialSkipEmpty(st, auth_config, tool_context) ==
  IF auth_config.exchanged_auth_credential = NoCredential
    THEN GetStorageForCurrentContext(st, tool_context).store
    ELSE StorageSet(st, GetStorageForCurrentContext(st, tool_context), tool_context.user_id,
                    auth_config.credential_key, auth_config.exchanged_auth_credential)

\* save_credential that stores the raw credential of the AuthConfig
SaveCredentialRaw(st, auth_config, tool_context) ==
  StorageSet(st, GetStorageForCurrentContext(st, tool_context), tool_context.user_id,
             auth_config.credential_key, auth_config.raw_auth_credential)

\* save_credential: the store after the call
SaveCredential(st, auth_config, tool_context) ==
  StorageSet(st, GetStorageForCurrentContext(st, tool_context), tool_context.user_id,
             auth_config.credential_key, auth_config.exchanged_auth_credential)

\* What a load of scope s would return from store st
Stored(st, s) ==
  LoadCredential(st, AuthConfig(None, NoCredential, NoCredential, s[3]),
                 ToolContext(s[1], s[2])).ret

\* ------------------------------------------------------------------ tool wrappers
DefaultPendingResponse == "Pending User Authorization."

\* auth_config = None
NoAuthConfig == AuthConfig(None, NoCredential, NoCredential, None)

\* A dict given as unauthenticated_response, written as its repr: the empty
\* one and one with an entry
EmptyObject == "{}"
ObjectResponse == "{'status': 'auth_required'}"

\* Python truthiness of an optional str or dict
Truthy(x) == x # None /\ x # "" /\ x # EmptyObject

\* __init__ that creates the manager for every AuthConfig given
HasCredentialsManagerAnyConfig(auth_config) == auth_config # NoAuthConfig

\* __init__ that creates the manager unconditionally
HasCredentialsManagerAlways(auth_config) == TRUE

\* __init__ of both wrappers: a CredentialManager exists iff an AuthConfig with
\* an auth_scheme was given
HasCredentialsManager(auth_config) ==
  auth_config # NoAuthConfig /\ auth_config.auth_scheme # None

\* The constructed tool. cls names the wrapper class; func_has_credential is
\* '"credential" in inspect.signature(self.func).parameters'.
NewTool(cls, func_has_credential, auth_config, unauthenticated_response) ==
  [cls |-> cls,
   func_has_credential |-> func_has_credential,
   credentials_manager |-> HasCredentialsManager(auth_config),
   auth_config |-> auth_config,
   response |-> unauthenticated_response]

\* the pending response that ignores the configured one
PendingResponseAlwaysDefault(t) == DefaultPendingResponse

\* AuthenticatedFunctionTool: self._no_credential_message or "Pending User Authorization."
AftPendingResponse(t) ==
  IF Truthy(t.response) THEN t.response ELSE DefaultPendingResponse

\* BaseAuthenticatedTool that replaces only a response that is None
BatPendingResponseNotNone(t) ==
  IF t.response # None THEN t.response ELSE DefaultPendingResponse

\* BaseAuthenticatedTool: self._request_credential_response or "Pending User Authorization."
BatPendingResponse(t) ==
  IF Truthy(t.response) THEN t.response ELSE DefaultPendingResponse

PendingResponse(t) ==
  IF t.cls = "AuthenticatedFunctionTool" THEN AftPendingResponse(t) ELSE BatPendingResponse(t)

\* args_to_call that keeps a credential the caller put into args
ArgsToCallKeepCaller(args, func_has_credential, credential) ==
  IF func_has_credential /\ "credential" \notin DOMAIN args
    THEN DictSet(args, "credential", credential) ELSE args

\* args_to_call that always carries the credential
ArgsToCallForced(args, func_has_credential, credential) ==
  DictSet(args, "credential", credential)

\* AuthenticatedFunctionTool._run_async_impl: args.copy(), plus the credential
\* when the function's signature has a parameter named credential
ArgsToCall(args, func_has_credential, credential) ==
  IF func_has_credential THEN DictSet(args, "credential", credential) ELSE args

\* One invocation of the tool body: for AuthenticatedFunctionTool the wrapped
\* function called with args_to_call, for BaseAuthenticatedTool the subclass's
\* _run_async_impl called with args and credential=credential.
BodyCall(t, args, credential) ==
  IF t.cls = "AuthenticatedFunctionTool"
    THEN [args |-> ArgsToCall(args, t.func_has_credential, credential),
          kw |-> FALSE, credential |-> NoCredential]
    ELSE [args |-> args, kw |-> TRUE, credential |-> credential]

\* run_async after load_auth_credential that treats a raised error as no credential
GateMaskingErrors(out) ==
  IF out.raised # None \/ out.ret = NoCredential THEN "request" ELSE "body"

\* run_async after load_auth_credential that runs the body whatever came back
GateAlwaysBody(out) ==
  IF out.raised # None THEN "raise" ELSE "body"

\* BaseAuthenticatedTool.run_async that requests consent whatever the manager did
BatGateAlwaysRequest(out) == "request"

\* BaseAuthenticatedTool.run_async after 'await load_auth_credential(tool_context)':
\* an exception propagates (there is no try), 'if not credential' requests
\* consent, otherwise the body runs. out = [ret, raised].
BatGate(out) ==
  IF out.raised # None THEN "raise"
  ELSE IF out.ret = NoCredential THEN "request"
  ELSE "body"

\* AuthenticatedFunctionTool.run_async after 'await load_auth_credential(tool_context)'
AftGate(out) ==
  IF out.raised # None THEN "raise"
  ELSE IF out.ret = NoCredential THEN "request"
  ELSE "body"

\* run_async of the tool under test after 'await load_auth_credential(tool_context)'
Gate(out) ==
  IF tool.cls = "AuthenticatedFunctionTool" THEN AftGate(out) ELSE BatGate(out)

\* One whole run_async call of tool t, given what load_auth_credential does
\* when it is awaited: the gate taken (the body at once without a manager),
\* whether request_credential was awaited, and what the call returns or raises
RunAsync(t, out) ==
  LET g == IF ~t.credentials_manager THEN "body"
           ELSE IF t.cls = "AuthenticatedFunctionTool" THEN AftGate(out)
           ELSE BatGate(out)
  IN [gate |-> g,
      loaded |-> t.credentials_manager,
      requested |-> g = "request",
      body |-> g = "body",
      credential |-> IF t.credentials_manager /\ g = "body" THEN out.ret ELSE NoCredential,
      result |-> CASE g = "raise" -> [kind |-> "raise", value |-> out.raised]
                   [] g = "request" -> [kind |-> "return", value |-> PendingResponse(t)]
                   [] OTHER -> [kind |-> "return", value |-> "tool result"]]

\* ------------------------------------------------------------------ credential manager
ApiKeyCred == Cred("API_KEY", "api-key", None, NoExpiry)
ServiceAccountCred == Cred("SERVICE_ACCOUNT", None, None, NoExpiry)

\* Credential tags with a registered exchanger
ExchangerTags == {"API_KEY", "HTTP", "SERVICE_ACCOUNT"}
\* Credential tags whose exchange is a pass-through
PassThroughTags == {"API_KEY", "HTTP"}
\* Schemes, with a token endpoint guessed for those that have none
OAuth2SchemesGuessed == {"oauth2", "openIdConnect", "apiKey", "http"}

\* Schemes an OAuth2 session (token endpoint) can be resolved from
OAuth2Schemes == {"oauth2", "openIdConnect"}

\* MISS branch: is there a raw credential the exchanger registry can exchange
IsExchangeable(auth_config) ==
  /\ auth_config.raw_auth_credential # NoCredential
  /\ auth_config.raw_auth_credential.auth_type \in ExchangerTags

\* needs_refresh that never asks for a refresh
NeedsRefreshNever(c, t) == FALSE

\* needs_refresh without the safety margin: stale only once expires_at has passed
NeedsRefreshNoMargin(c, t) ==
  /\ c.auth_type = "OAUTH2"
  /\ IF c.expires_at = NoExpiry
       THEN c.refresh_token # None
       ELSE c.expires_at < t

\* needs_refresh that ignores the expiry
NeedsRefreshAlways(c, t) == c.auth_type = "OAUTH2"

\* OAuth2 needs_refresh: stale when expires_at is within the safety margin of
\* the clock t; with no expiry information, stale unless there is no refresh
\* token either
NeedsRefresh(c, t) ==
  /\ c.auth_type = "OAUTH2"
  /\ IF c.expires_at = NoExpiry
       THEN c.refresh_token # None
       ELSE c.expires_at <= t + SafetyMargin

\* Can a refresh of c under scheme succeed at all
Refreshable(c, scheme) == c.refresh_token # None /\ scheme \in OAuth2Schemes

\* The n-th access token a token endpoint issues
Token(n) == "tok" \o ToString(n)

\* ---- OAuth2SessionHelper
\* Python's None, where an int is expected
NoneInt == -1
\* Numbers of a token response are written in tenths, so that int() has
\* something to cut off
Tenths == 10
\* int(x) for x >= 0 written in tenths
PyInt(x) == x \div Tenths
\* Python truthiness of an Optional number
TruthyNum(x) == x # NoneInt /\ x # 0

\* AuthCredential.oauth2: the OAuth2Auth payload
OAuth2Auth(client_id, client_secret, at, rt, exp_at, exp_in) ==
  [client_id |-> client_id, client_secret |-> client_secret,
   redirect_uri |-> "https://app/callback", state |-> "state", auth_uri |-> "https://idp/auth",
   access_token |-> at, refresh_token |-> rt, expires_at |-> exp_at, expires_in |-> exp_in]

\* AuthCredential as create_oauth2_session reads it: auth_type and the oauth2
\* payload, which may be missing, as may the credential itself
AuthCredential(auth_type, oauth2) == [auth_type |-> auth_type, oauth2 |-> oauth2]
NoOAuth2 == [none |-> TRUE]
NoAuthCredential == [none |-> TRUE]

\* An OAuth flow of an OAuth2 scheme: tokenUrl and scopes, a dict of scope
\* name to description kept as the sequence of its items
Flow(tokenUrl, scopes) == [tokenUrl |-> tokenUrl, scopes |-> scopes]
NoFlow == [none |-> TRUE]

\* Auth schemes by class
OpenIdConnectWithConfig(token_endpoint, scopes) ==
  [type |-> "openIdConnect", token_endpoint |-> token_endpoint, scopes |-> scopes]
OAuth2(authorizationCode, clientCredentials) ==
  [type |-> "oauth2",
   flows |-> [authorizationCode |-> authorizationCode, clientCredentials |-> clientCredentials]]
OtherScheme(type) == [type |-> type]

\* list(scopes.keys())
ScopeKeys(scopes) == [n \in DOMAIN scopes |-> scopes[n].name]

\* " ".join(scopes)
RECURSIVE Join(_)
Join(q) ==
  IF q = <<>> THEN ""
  ELSE IF Len(q) = 1 THEN q[1]
  ELSE q[1] \o " " \o Join(Tail(q))

NoSession == [none |-> TRUE]

\* OAuth2Session(client_id, client_secret, scope=..., redirect_uri=..., state=...)
OAuth2Session(oauth2, scopes) ==
  [client_id |-> oauth2.client_id, client_secret |-> oauth2.client_secret,
   scope |-> Join(scopes), redirect_uri |-> oauth2.redirect_uri, state |-> oauth2.state]

\* The (None, None) create_oauth2_session returns when it can create no session
NoSessionResult == [session |-> NoSession, token_endpoint |-> None]

\* The credential test without the client_secret clause
CredentialIncompleteNoSecret(auth_credential) ==
  \/ auth_credential = NoAuthCredential
  \/ auth_credential.oauth2 = NoOAuth2
  \/ ~Truthy(auth_credential.oauth2.client_id)

\* The credential test of create_oauth2_session: not auth_credential or not
\* .oauth2 or not .client_id or not .client_secret
CredentialIncomplete(auth_credential) ==
  \/ auth_credential = NoAuthCredential
  \/ auth_credential.oauth2 = NoOAuth2
  \/ ~Truthy(auth_credential.oauth2.client_id)
  \/ ~Truthy(auth_credential.oauth2.client_secret)

\* create_oauth2_session that takes the tokenUrl of the clientCredentials flow
\* when the scheme has no authorizationCode flow
CreateOAuth2SessionAnyFlow(auth_scheme, auth_credential) ==
  LET flow == IF auth_scheme.type = "oauth2"
                THEN IF auth_scheme.flows.authorizationCode # NoFlow
                       THEN auth_scheme.flows.authorizationCode
                       ELSE auth_scheme.flows.clientCredentials
                ELSE NoFlow
  IN IF auth_scheme.type = "openIdConnect"
       THEN IF CredentialIncomplete(auth_credential) THEN NoSessionResult
            ELSE [session |-> OAuth2Session(auth_credential.oauth2, auth_scheme.scopes),
                  token_endpoint |-> auth_scheme.token_endpoint]
     ELSE IF flow = NoFlow \/ ~Truthy(flow.tokenUrl) THEN NoSessionResult
     ELSE IF CredentialIncomplete(auth_credential) THEN NoSessionResult
     ELSE [session |-> OAuth2Session(auth_credential.oauth2, ScopeKeys(flow.scopes)),
           token_endpoint |-> flow.tokenUrl]

\* OAuth2SessionHelper.create_oauth2_session: [session, token_endpoint]
CreateOAuth2Session(auth_scheme, auth_credential) ==
  IF auth_scheme.type = "openIdConnect"
    THEN IF CredentialIncomplete(auth_credential) THEN NoSessionResult
         ELSE [session |-> OAuth2Session(auth_credential.oauth2, auth_scheme.scopes),
               token_endpoint |-> auth_scheme.token_endpoint]
  ELSE IF auth_scheme.type = "oauth2"
    THEN IF \/ auth_scheme.flows.authorizationCode = NoFlow
            \/ ~Truthy(auth_scheme.flows.authorizationCode.tokenUrl)
           THEN NoSessionResult
         ELSE IF CredentialIncomplete(auth_credential) THEN NoSessionResult
         ELSE [session |-> OAuth2Session(auth_credential.oauth2,
                              ScopeKeys(auth_scheme.flows.authorizationCode.scopes)),
               token_endpoint |-> auth_scheme.flows.authorizationCode.tokenUrl]
  ELSE NoSessionResult

\* tokens.get(key) for a string field and for a number field of the token
\* response, a dict that may lack any key
TokensGetStr(tokens, key) == IF key \in DOMAIN tokens THEN tokens[key] ELSE None
TokensGetNum(tokens, key) == IF key \in DOMAIN tokens THEN tokens[key] ELSE NoneInt

\* update_credential_with_tokens that builds a fresh payload from the
\* response, keeping only the client id and secret
UpdateOAuth2AuthFreshPayload(oauth2, tokens) ==
  [oauth2 EXCEPT
     !.redirect_uri = None, !.state = None, !.auth_uri = None,
     !.access_token = TokensGetStr(tokens, "access_token"),
     !.refresh_token = TokensGetStr(tokens, "refresh_token"),
     !.expires_at = IF TruthyNum(TokensGetNum(tokens, "expires_at"))
                      THEN PyInt(TokensGetNum(tokens, "expires_at")) ELSE NoneInt,
     !.expires_in = IF TruthyNum(TokensGetNum(tokens, "expires_in"))
                      THEN PyInt(TokensGetNum(tokens, "expires_in")) ELSE NoneInt]

\* update_credential_with_tokens that keeps the refresh token the credential
\* has when the response brings none
UpdateOAuth2AuthCarryOver(oauth2, tokens) ==
  [oauth2 EXCEPT
     !.access_token = TokensGetStr(tokens, "access_token"),
     !.refresh_token = IF TokensGetStr(tokens, "refresh_token") # None
                         THEN TokensGetStr(tokens, "refresh_token") ELSE @,
     !.expires_at = IF TruthyNum(TokensGetNum(tokens, "expires_at"))
                      THEN PyInt(TokensGetNum(tokens, "expires_at")) ELSE NoneInt,
     !.expires_in = IF TruthyNum(TokensGetNum(tokens, "expires_in"))
                      THEN PyInt(TokensGetNum(tokens, "expires_in")) ELSE NoneInt]

\* update_credential_with_tokens that leaves the expiry fields as they were
UpdateOAuth2AuthKeepExpiry(oauth2, tokens) ==
  [oauth2 EXCEPT
     !.access_token = TokensGetStr(tokens, "access_token"),
     !.refresh_token = TokensGetStr(tokens, "refresh_token")]

\* OAuth2SessionHelper.update_credential_with_tokens: the payload
\* self._auth_credential.oauth2 after the call
UpdateOAuth2Auth(oauth2, tokens) ==
  [oauth2 EXCEPT
     !.access_token = TokensGetStr(tokens, "access_token"),
     !.refresh_token = TokensGetStr(tokens, "refresh_token"),
     !.expires_at = IF TruthyNum(TokensGetNum(tokens, "expires_at"))
                      THEN PyInt(TokensGetNum(tokens, "expires_at")) ELSE NoneInt,
     !.expires_in = IF TruthyNum(TokensGetNum(tokens, "expires_in"))
                      THEN PyInt(TokensGetNum(tokens, "expires_in")) ELSE NoneInt]

\* The OAuth2 payload of a credential the manager holds, and the token
\* response it hands on, whole seconds written in tenths
PayloadOf(c) ==
  OAuth2Auth("client", "secret", c.access_token, c.refresh_token,
             IF c.expires_at = NoExpiry THEN NoneInt ELSE c.expires_at, NoneInt)
ResponseOf(tokens) ==
  [access_token |-> tokens.access_token, refresh_token |-> tokens.refresh_token,
   expires_at |-> tokens.expires_at * Tenths]

\* update_credential_with_tokens that leaves the access token as it was
UpdateCredentialKeepAccessToken(c, tokens) ==
  [c EXCEPT !.refresh_token = tokens.refresh_token,
            !.expires_at = tokens.expires_at]

\* update_credential_with_tokens applied to a credential the manager holds
UpdateCredentialWithTokens(c, tokens) ==
  LET r == UpdateOAuth2Auth(PayloadOf(c), ResponseOf(tokens))
  IN [c EXCEPT !.access_token = r.access_token,
               !.refresh_token = r.refresh_token,
               !.expires_at = IF r.expires_at = NoneInt THEN NoExpiry ELSE r.expires_at]

\* The credential a successful exchange of raw yields, tok being the bearer
\* token acquired
Exchanged(raw, tok) ==
  IF raw.auth_type \in PassThroughTags THEN raw
  ELSE Cred("OAUTH2", tok, None, NoExpiry)

\* ---- ServiceAccountCredentialExchanger
\* AuthCredential as the exchanger reads it: auth_type and the service_account
\* sub-object, which may be missing, as may the credential itself
SaCredential(auth_type, service_account) ==
  [auth_type |-> auth_type, service_account |-> service_account]
NoSaCredential == [none |-> TRUE]
NoServiceAccount == [none |-> TRUE]

\* ServiceAccount: embedded key material (or none), the use-default flag and
\* the requested scopes
ServiceAccount(service_account_credential, use_default_credential, scopes) ==
  [service_account_credential |-> service_account_credential,
   use_default_credential |-> use_default_credential, scopes |-> scopes]
NoKey == "None"
MalformedKey == "malformed-key"

\* The errors of the input validation
CredentialNone == "Credential cannot be None"
NotServiceAccount == "Credential is not a service account credential"
ServiceAccountMissing == "Service account credentials are missing"
ServiceAccountInvalid == "Service account credentials are invalid"
\* The error wrapping any failure after the validation
ExchangeFailed(cause) == "Failed to exchange service account token: " \o cause

\* Calls the exchanger makes on the environment
DefaultCall == [fn |-> "google.auth.default", key |-> NoKey, scopes |-> <<>>]
FromInfoCall(key, scopes) ==
  [fn |-> "from_service_account_info", key |-> key, scopes |-> scopes]
RefreshCall == [fn |-> "credentials.refresh", key |-> NoKey, scopes |-> <<>>]

\* The bearer token each credential source acquires, and credentials.to_json()
DefaultToken == "default_access_token"
KeyToken == "mock_access_token"
ToJson(token) == "{\"token\": \"" \o token \o "\", \"type\": \"authorized_user\"}"

NoExchangeResult == [none |-> TRUE]
Raise(error, made) == [raised |-> error, result |-> NoExchangeResult, calls |-> made]

\* exchange whose token acquisition failure hands back the credential built so
\* far, with no token in it
ExchangeResolvedPartial(sa, env) ==
  LET source == IF sa.use_default_credential
                  THEN DefaultCall
                  ELSE FromInfoCall(sa.service_account_credential, sa.scopes)
      source_ok == IF sa.use_default_credential
                     THEN env.default_ok
                     ELSE sa.service_account_credential # MalformedKey
      token == IF sa.use_default_credential THEN DefaultToken ELSE KeyToken
  IN IF ~source_ok
       THEN Raise(ExchangeFailed(IF sa.use_default_credential
                                   THEN "No default credentials found"
                                   ELSE "Invalid private key"), <<source>>)
     ELSE [raised |-> None,
           result |-> [auth_type |-> "OAUTH2",
                       google_oauth2_json |-> IF env.refresh_ok THEN ToJson(token) ELSE None],
           calls |-> <<source, RefreshCall>>]

\* Steps 2 to 4 of the exchange, after the validation. env: whether ambient
\* default credentials are available and whether the token acquisition works.
ExchangeResolved(sa, env) ==
  LET source == IF sa.use_default_credential
                  THEN DefaultCall
                  ELSE FromInfoCall(sa.service_account_credential, sa.scopes)
      source_ok == IF sa.use_default_credential
                     THEN env.default_ok
                     ELSE sa.service_account_credential # MalformedKey
      token == IF sa.use_default_credential THEN DefaultToken ELSE KeyToken
  IN IF ~source_ok
       THEN Raise(ExchangeFailed(IF sa.use_default_credential
                                   THEN "No default credentials found"
                                   ELSE "Invalid private key"), <<source>>)
     ELSE IF ~env.refresh_ok
       THEN Raise(ExchangeFailed("Network error during refresh"), <<source, RefreshCall>>)
     ELSE [raised |-> None,
           result |-> [auth_type |-> "OAUTH2", google_oauth2_json |-> ToJson(token)],
           calls |-> <<source, RefreshCall>>]

\* exchange that looks at the service_account sub-object before the tag
ServiceAccountExchangeSubObjectFirst(auth_credential, env) ==
  IF auth_credential = NoSaCredential THEN Raise(CredentialNone, <<>>)
  ELSE IF auth_credential.service_account = NoServiceAccount
    THEN Raise(ServiceAccountMissing, <<>>)
  ELSE IF auth_credential.auth_type # "SERVICE_ACCOUNT" THEN Raise(NotServiceAccount, <<>>)
  ELSE IF /\ auth_credential.service_account.service_account_credential = NoKey
          /\ ~auth_credential.service_account.use_default_credential
    THEN Raise(ServiceAccountInvalid, <<>>)
  ELSE ExchangeResolved(auth_credential.service_account, env)

\* exchange that resolves the ambient default credentials first and builds
\* from the embedded key as well when there is one
ServiceAccountExchangeBothSources(auth_credential, env) ==
  IF auth_credential = NoSaCredential THEN Raise(CredentialNone, <<>>)
  ELSE IF auth_credential.auth_type # "SERVICE_ACCOUNT" THEN Raise(NotServiceAccount, <<>>)
  ELSE IF auth_credential.service_account = NoServiceAccount
    THEN Raise(ServiceAccountMissing, <<>>)
  ELSE IF /\ auth_credential.service_account.service_account_credential = NoKey
          /\ ~auth_credential.service_account.use_default_credential
    THEN Raise(ServiceAccountInvalid, <<>>)
  ELSE LET r == ExchangeResolved(auth_credential.service_account, env)
       IN IF auth_credential.service_account.use_default_credential
            THEN r
            ELSE [r EXCEPT !.calls = <<DefaultCall>> \o @]

\* ServiceAccountCredentialExchanger.exchange: [raised, result, calls made]
ServiceAccountExchange(auth_credential, env) ==
  IF auth_credential = NoSaCredential THEN Raise(CredentialNone, <<>>)
  ELSE IF auth_credential.auth_type # "SERVICE_ACCOUNT" THEN Raise(NotServiceAccount, <<>>)
  ELSE IF auth_credential.service_account = NoServiceAccount
    THEN Raise(ServiceAccountMissing, <<>>)
  ELSE IF /\ auth_credential.service_account.service_account_credential = NoKey
          /\ ~auth_credential.service_account.use_default_credential
    THEN Raise(ServiceAccountInvalid, <<>>)
  ELSE ExchangeResolved(auth_credential.service_account, env)

\* ------------------------------------------------------------------ invocations
Invocations == 1 .. NumInvocations
Contexts == {ToolContext("app1", "user1"), ToolContext("app1", "user2")}
ToolKey == "key1"

ToolClasses == {"AuthenticatedFunctionTool", "BaseAuthenticatedTool"}
Responses == {None, "", "Please sign in."}
AuthConfigs ==
  {NoAuthConfig,
   AuthConfig(None, ApiKeyCred, NoCredential, ToolKey),
   AuthConfig("oauth2", NoCredential, NoCredential, ToolKey),
   AuthConfig("oauth2", RawCred, NoCredential, ToolKey),
   AuthConfig("apiKey", ApiKeyCred, NoCredential, ToolKey),
   AuthConfig("http", ServiceAccountCred, NoCredential, ToolKey)}

\* The args the tool-calling loop passes: with or without a key named credential
CallerCred == Cred("API_KEY", "from-caller", None, NoExpiry)
PlainArgs == DictSet(EmptyDict, "query", "q")
ArgsSet == {PlainArgs, DictSet(PlainArgs, "credential", CallerCred)}

\* Credentials a completed consent flow delivers into the store
DeliveredCreds ==
  {Cred("OAUTH2", "user-token", "rt", FarFuture),
   Cred("OAUTH2", "user-token", "rt", 1)}

NoResult == [kind |-> "none", value |-> None]

IdleInvocation ==
  [pc |-> "idle", mstate |-> "NONE", ctx |-> ToolContext(None, None),
   args |-> EmptyDict, credential |-> NoCredential, error |-> None,
   result |-> NoResult, body |-> <<>>, requested |-> <<>>, trace |-> <<>>]

Terminal == {"READY", "FAIL", "PENDING"}
Intermediate == {"LOOKUP", "CHECK_REFRESH", "REFRESH", "EXCHANGE", "SAVE"}

\* The record of the save_credential calls made for one scope key
NeverWritten == [all |-> {}, last |-> NoCredential]
Record(w, c) == [all |-> w.all \cup {c}, last |-> c]

\* seen: the scope keys an earlier direct load has returned a credential for
NoCall == [op |-> "none", scope |-> <<None, None, None>>, cred |-> NoCredential,
           ret |-> NoCredential, raised |-> None, seen |-> {}]

\* The scope keys a direct load, the last one included, has returned a
\* credential for
LoadedScopes ==
  call.seen \cup (IF call.op = "load" /\ call.ret # NoCredential THEN {call.scope} ELSE {})

\* No helper has been called on its own
NoFn == [name |-> "none"]

\* The application before get_fast_api_app has been called. lifespan: the
\* caller-supplied lifespan; phase: where internal_lifespan is; closed: the
\* number of adk_dev_server.close() calls; error: what internal_lifespan raised
NoApp == [built |-> FALSE, web |-> FALSE, session |-> {}, hist |-> <<>>,
          lifespan |-> None, phase |-> "idle", closed |-> 0, error |-> None,
          log |-> <<>>]

AppInit == webApp = NoApp

\* A store call as a task of the event loop: "none" until it is created,
\* "pending" until the loop runs it, then "done" with what it returned and
\* its place in the order of completion
TaskIds == 1 .. MaxTasks
NoTask == [state |-> "none", op |-> "none", scope |-> <<None, None, None>>,
           cred |-> NoCredential, ret |-> NoCredential, raised |-> None, order |-> 0]

\* ------------------------------------------------------------------ actions
StoreInit ==
  /\ store = EmptyDict
  /\ call = NoCall
  /\ written = [s \in Scopes |-> NeverWritten]
  /\ calls = 0
  /\ tasks = [t \in TaskIds |-> NoTask]

ToolInit ==
  /\ \E cls \in ToolClasses, p \in BOOLEAN, cfg \in AuthConfigs, r \in Responses :
       /\ (cls = "BaseAuthenticatedTool" => p)
       /\ tool = NewTool(cls, p, cfg, r)
  /\ inv = [i \in Invocations |-> IdleInvocation]
  /\ now = 1
  /\ issued = 0
  /\ fn = NoFn

\* A direct save_credential call on the service
DoSave(a, u, k, c) ==
  /\ calls < MaxCalls
  /\ store' = SaveCredential(store, AuthConfig("oauth2", RawCred, c, k), ToolContext(a, u))
  /\ call' = [op |-> "save", scope |-> <<a, u, k>>, cred |-> c,
              ret |-> NoCredential, raised |-> None, seen |-> LoadedScopes]
  /\ written' = [written EXCEPT ![<<a, u, k>>] = Record(@, c)]
  /\ calls' = calls + 1
  /\ UNCHANGED <<tasks, toolVars, webApp>>

\* A direct load_credential call on the service
DoLoad(a, u, k) ==
  /\ calls < MaxCalls
  /\ LET r == LoadCredential(store, AuthConfig("oauth2", RawCred, NoCredential, k), ToolContext(a, u))
     IN /\ store' = r.store
        /\ call' = [op |-> "load", scope |-> <<a, u, k>>, cred |-> NoCredential,
                    ret |-> r.ret, raised |-> r.raised, seen |-> LoadedScopes]
  /\ calls' = calls + 1
  /\ UNCHANGED <<written, tasks, toolVars, webApp>>

Save == \E a \in Apps, u \in Users, k \in Keys, c \in StoreCreds : DoSave(a, u, k, c)
Load == \E a \in Apps, u \in Users, k \in Keys : DoLoad(a, u, k)

\* The store driven directly, with an ungated tool that is never run
InitStore ==
  /\ StoreInit
  /\ tool = NewTool("AuthenticatedFunctionTool", FALSE, NoAuthConfig, None)
  /\ inv = [i \in Invocations |-> IdleInvocation]
  /\ now = 1
  /\ issued = 0
  /\ fn = NoFn
  /\ AppInit

NextStore == Save \/ Load

SpecStore == InitStore /\ [][NextStore]_vars

\* ---- the tool-calling loop invoking the tool

Scope(i) == <<inv[i].ctx.app_name, inv[i].ctx.user_id, tool.auth_config.credential_key>>

Log(i, e) == Append(inv[i].trace, e)

\* run_async is entered: with a manager, load_auth_credential is awaited;
\* without one, _run_async_impl is called with credential = None
Start(i, ctx, args) ==
  /\ inv[i].pc = "idle"
  /\ \A j \in Invocations : j < i => inv[j].pc # "idle"
  /\ inv' = [inv EXCEPT ![i] =
       IF tool.credentials_manager
         THEN [@ EXCEPT !.pc = "load", !.mstate = "LOOKUP", !.ctx = ctx, !.args = args,
                        !.trace = <<"load_auth_credential">>]
         ELSE [@ EXCEPT !.pc = "body", !.ctx = ctx, !.args = args,
                        !.body = <<BodyCall(tool, args, NoCredential)>>,
                        !.trace = <<"body">>]]
  /\ UNCHANGED <<storeVars, tool, now, fn, issued, webApp>>

\* LOOKUP: load(scopeKey) from the store; HIT goes on to the refresh check,
\* MISS to the exchange of the raw credential or to PENDING
ManagerLookup(i) ==
  /\ inv[i].pc = "load" /\ inv[i].mstate = "LOOKUP"
  /\ LET r == LoadCredential(store, tool.auth_config, inv[i].ctx)
     IN /\ store' = r.store
        /\ inv' = [inv EXCEPT ![i] =
             IF r.ret # NoCredential
               THEN [@ EXCEPT !.mstate = "CHECK_REFRESH", !.credential = r.ret,
                              !.trace = Log(i, "hit")]
             ELSE IF IsExchangeable(tool.auth_config)
               THEN [@ EXCEPT !.mstate = "EXCHANGE",
                              !.credential = tool.auth_config.raw_auth_credential,
                              !.trace = Log(i, "exchange")]
               ELSE [@ EXCEPT !.mstate = "PENDING", !.trace = Log(i, "miss")]]
  /\ UNCHANGED <<call, written, calls, tasks, tool, now, fn, issued, webApp>>

\* CHECK_REFRESH: needs_refresh decides between REFRESH and READY
ManagerCheckRefresh(i) ==
  /\ inv[i].pc = "load" /\ inv[i].mstate = "CHECK_REFRESH"
  /\ inv' = [inv EXCEPT ![i] =
       IF NeedsRefresh(inv[i].credential, now)
         THEN [@ EXCEPT !.mstate = "REFRESH", !.trace = Log(i, "refresh")]
         ELSE [@ EXCEPT !.mstate = "READY"]]
  /\ UNCHANGED <<storeVars, tool, now, fn, issued, webApp>>

\* REFRESH whose failure hands the stale credential on as if refreshed
ManagerRefreshReturnStale(i, ok, with_rt) ==
  /\ inv[i].pc = "load" /\ inv[i].mstate = "REFRESH"
  /\ ~ok /\ ~with_rt
  /\ inv' = [inv EXCEPT ![i].mstate = "READY", ![i].error = "RefreshError"]
  /\ UNCHANGED <<storeVars, tool, now, fn, issued, webApp>>

\* REFRESH returns: a new credential built from the token response, or a
\* refresh error. with_rt: the response carries a refresh token.
ManagerRefreshReturn(i, ok, with_rt) ==
  /\ inv[i].pc = "load" /\ inv[i].mstate = "REFRESH"
  /\ ok => (Refreshable(inv[i].credential, tool.auth_config.auth_scheme)
             /\ issued < MaxTokens)
  /\ ~ok => ~with_rt
  /\ IF ok
       THEN /\ issued' = issued + 1
            /\ inv' = [inv EXCEPT ![i].mstate = "SAVE",
                 ![i].credential = UpdateCredentialWithTokens(@,
                    [access_token |-> Token(issued + 1),
                     refresh_token |-> IF with_rt THEN "rt2" ELSE None,
                     expires_at |-> now + TokenLifetime])]
       ELSE /\ issued' = issued
            /\ inv' = [inv EXCEPT ![i].mstate = "FAIL", ![i].error = "RefreshError",
                                   ![i].credential = NoCredential]
  /\ UNCHANGED <<storeVars, tool, now, fn, webApp>>

\* EXCHANGE returns: the usable credential, or an exchange error. A
\* pass-through exchange makes no call that can fail.
ManagerExchangeReturn(i, ok) ==
  /\ inv[i].pc = "load" /\ inv[i].mstate = "EXCHANGE"
  /\ LET raw == inv[i].credential
         pass == raw.auth_type \in PassThroughTags
     IN /\ ok => (pass \/ issued < MaxTokens)
        /\ ~ok => ~pass
        /\ IF ok
             THEN /\ issued' = IF pass THEN issued ELSE issued + 1
                  /\ inv' = [inv EXCEPT ![i].mstate = "SAVE",
                       ![i].credential = Exchanged(raw, Token(issued + 1))]
             ELSE /\ issued' = issued
                  /\ inv' = [inv EXCEPT ![i].mstate = "FAIL", ![i].error = "ExchangeError",
                                         ![i].credential = NoCredential]
  /\ UNCHANGED <<storeVars, tool, now, fn, webApp>>

\* SAVE: the new credential becomes exchanged_auth_credential and is persisted
\* under the invocation's scope key
ManagerSave(i) ==
  /\ inv[i].pc = "load" /\ inv[i].mstate = "SAVE"
  /\ tool' = [tool EXCEPT !.auth_config.exchanged_auth_credential = inv[i].credential]
  /\ store' = SaveCredential(store, tool'.auth_config, inv[i].ctx)
  /\ written' = [written EXCEPT ![Scope(i)] = Record(@, inv[i].credential)]
  /\ inv' = [inv EXCEPT ![i].mstate = "READY", ![i].trace = Log(i, "save")]
  /\ UNCHANGED <<call, calls, tasks, now, fn, issued, webApp>>

\* What 'await load_auth_credential(tool_context)' hands to run_async
ManagerOutcome(i) ==
  [ret |-> IF inv[i].mstate = "READY" THEN inv[i].credential ELSE NoCredential,
   raised |-> IF inv[i].mstate = "FAIL" THEN inv[i].error ELSE None]

\* run_async that awaits load_auth_credential again when it raised
ResumeRetrying(i) ==
  /\ inv[i].pc = "load" /\ inv[i].mstate \in Terminal
  /\ LET out == ManagerOutcome(i)
         g == Gate(out)
     IN inv' = [inv EXCEPT ![i] =
          CASE g = "raise" ->
                 [@ EXCEPT !.mstate = "LOOKUP", !.error = None,
                           !.trace = Log(i, "load_auth_credential")]
            [] g = "request" ->
                 [@ EXCEPT !.pc = "request"]
            [] OTHER ->
                 [@ EXCEPT !.pc = "body", !.trace = Log(i, "body"),
                           !.body = Append(@, BodyCall(tool, inv[i].args, out.ret))]]
  /\ UNCHANGED <<storeVars, tool, now, fn, issued, webApp>>

\* run_async resumes with the manager's outcome: the error propagates, or
\* request_credential is awaited, or _run_async_impl is called
Resume(i) ==
  /\ inv[i].pc = "load" /\ inv[i].mstate \in Terminal
  /\ LET out == ManagerOutcome(i)
         g == Gate(out)
     IN inv' = [inv EXCEPT ![i] =
          CASE g = "raise" ->
                 [@ EXCEPT !.pc = "done", !.trace = Log(i, "raise"),
                           !.result = [kind |-> "raise", value |-> out.raised]]
            [] g = "request" ->
                 [@ EXCEPT !.pc = "request"]
            [] OTHER ->
                 [@ EXCEPT !.pc = "body", !.trace = Log(i, "body"),
                           !.body = Append(@, BodyCall(tool, inv[i].args, out.ret))]]
  /\ UNCHANGED <<storeVars, tool, now, fn, issued, webApp>>

\* run_async that returns the pending response without awaiting request_credential
RequestAndReturnNoRequest(i) ==
  /\ inv[i].pc = "request"
  /\ inv' = [inv EXCEPT ![i].pc = "done",
       ![i].trace = Log(i, "return_pending"),
       ![i].result = [kind |-> "return", value |-> PendingResponse(tool)]]
  /\ UNCHANGED <<storeVars, tool, now, fn, issued, webApp>>

\* request_credential(tool_context) records the consent request for the
\* manager's AuthConfig in the invocation; run_async then returns the
\* pending response
RequestAndReturn(i) ==
  /\ inv[i].pc = "request"
  /\ inv' = [inv EXCEPT ![i].pc = "done",
       ![i].requested = Append(@, [key |-> tool.auth_config.credential_key,
                                   ctx |-> inv[i].ctx]),
       ![i].trace = Log(i, "request_credential") \o <<"return_pending">>,
       ![i].result = [kind |-> "return", value |-> PendingResponse(tool)]]
  /\ UNCHANGED <<storeVars, tool, now, fn, issued, webApp>>

\* The tool body returns and run_async returns its result
BodyReturn(i) ==
  /\ inv[i].pc = "body"
  /\ inv' = [inv EXCEPT ![i].pc = "done", ![i].trace = Log(i, "return_result"),
                         ![i].result = [kind |-> "return", value |-> "tool result"]]
  /\ UNCHANGED <<storeVars, tool, now, fn, issued, webApp>>

\* The tool-calling loop stores the credential of a completed consent flow
\* under the tool's credential key
Deliver(ctx, c) ==
  /\ tool.credentials_manager
  /\ calls < MaxDeliveries
  /\ store' = SaveCredential(store, AuthConfig(tool.auth_config.auth_scheme,
                  tool.auth_config.raw_auth_credential, c, tool.auth_config.credential_key), ctx)
  /\ written' = [written EXCEPT
       ![<<ctx.app_name, ctx.user_id, tool.auth_config.credential_key>>] = Record(@, c)]
  /\ calls' = calls + 1
  /\ UNCHANGED <<call, tasks, toolVars, webApp>>

\* Time passes
Tick ==
  /\ now < MaxTime
  /\ now' = now + 1
  /\ UNCHANGED <<storeVars, tool, inv, issued, fn, webApp>>

Init == StoreInit /\ ToolInit /\ AppInit

Next ==
  \/ \E i \in Invocations, ctx \in Contexts, args \in ArgsSet : Start(i, ctx, args)
  \/ \E i \in Invocations : ManagerLookup(i)
  \/ \E i \in Invocations : ManagerCheckRefresh(i)
  \/ \E i \in Invocations, ok \in BOOLEAN, with_rt \in BOOLEAN :
       ManagerRefreshReturn(i, ok, with_rt)
  \/ \E i \in Invocations, ok \in BOOLEAN : ManagerExchangeReturn(i, ok)
  \/ \E i \in Invocations : ManagerSave(i)
  \/ \E i \in Invocations : Resume(i)
  \/ \E i \in Invocations : RequestAndReturn(i)
  \/ \E i \in Invocations : BodyReturn(i)
  \/ \E ctx \in Contexts, c \in DeliveredCreds : Deliver(ctx, c)
  \/ Tick

Spec == Init /\ [][Next]_vars

\* ------------------------------------------------------------------ store claims
SameAppUser(s, t) == s[1] = t[1] /\ s[2] = t[2]

\* C1: a load for (app, user, key) raises nothing and returns only a value that
\* a save_credential call stored under the same app, user and key; and a save
\* made under another app or another user leaves what every load of this
\* scope returns as it was.
C1_LoadOnlyOwnScope ==
  /\ [](call.op = "load" =>
          /\ call.raised = None
          /\ call.ret # NoCredential => call.ret \in written[call.scope].all)
  /\ [][\A s \in Scopes :
          (call'.op = "save" /\ calls' = calls + 1 /\ ~SameAppUser(call'.scope, s))
            => Stored(store', s) = Stored(store, s)]_vars

\* C1 witness: a load returned a credential while another user's or app's
\* scope with the same key holds a different credential.
C1_Witness ==
  /\ call.op = "load"
  /\ call.ret = CredA
  /\ \E s \in Scopes :
       /\ ~SameAppUser(s, call.scope)
       /\ s[3] = call.scope[3]
       /\ written[s].all = {CredB}

\* C6: round trip. Whatever was saved last under a scope key is what the store
\* holds for it and what a load of it returns, whatever was saved under other
\* scope keys.
C6_RoundTrip ==
  /\ \A s \in Scopes : written[s] # NeverWritten => Stored(store, s) = written[s].last
  /\ (call.op = "load" /\ written[call.scope] # NeverWritten)
       => (call.raised = None /\ call.ret = written[call.scope].last)

\* C6 witness: a load returned the credential saved under its scope key while
\* another key of the same app and user holds another credential.
C6_Witness ==
  /\ call.op = "load"
  /\ call.ret = CredA
  /\ written[call.scope].all = {CredA}
  /\ \E s \in Scopes :
       /\ SameAppUser(s, call.scope)
       /\ s # call.scope
       /\ written[s].all = {CredB}

\* C7: a load of a scope key never written returns no credential and raises
\* nothing, also when the store has not seen the app or the user before.
C7_MissNeverRaises ==
  (call.op = "load" /\ written[call.scope] = NeverWritten)
    => (call.ret = NoCredential /\ call.raised = None)

\* C7 witness: the first call ever made on the store is a load (neither the app
\* nor the user has a container yet) and it returned no credential.
C7_Witness ==
  /\ call.op = "load"
  /\ calls = 1
  /\ call.ret = NoCredential
  /\ call.raised = None

\* ------------------------------------------------------------------ wrapper claims
Done(i) == inv[i].pc = "done"
Resumed(i) == inv[i].pc \in {"request", "body", "done"}
Has(q, e) == \E n \in DOMAIN q : q[n] = e
Before(q, a, b) == \E m, n \in DOMAIN q : m < n /\ q[m] = a /\ q[n] = b

\* C2: with a Credential Manager, a call whose load_auth_credential returned no
\* credential never invokes the tool body and returns the configured
\* unauthenticated response, or "Pending User Authorization." when none is
\* configured.
C2_PendingReturnsSentinel ==
  \A i \in Invocations :
    (tool.credentials_manager /\ inv[i].mstate = "PENDING") =>
      /\ inv[i].body = <<>>
      /\ inv[i].pc \in {"load", "request", "done"}
      /\ Done(i) =>
           /\ inv[i].result.kind = "return"
           /\ tool.response \in {None, ""} =>
                inv[i].result.value = "Pending User Authorization."
           /\ tool.response \notin {None, ""} => inv[i].result.value = tool.response

\* C2 witness: a call ended pending and returned the configured response.
C2_Witness ==
  \E i \in Invocations :
    /\ Done(i) /\ inv[i].mstate = "PENDING"
    /\ inv[i].result = [kind |-> "return", value |-> "Please sign in."]
    /\ inv[i].body = <<>>

\* C3: when the manager fails with a refresh or exchange error, run_async
\* raises that error: no pending response is returned, no consent request is
\* recorded and the body is not invoked, so a failed call and a pending call
\* never end alike.
C3_FailPropagates ==
  /\ \A i \in Invocations :
       inv[i].mstate = "FAIL" =>
         /\ inv[i].error \in {"RefreshError", "ExchangeError"}
         /\ inv[i].body = <<>>
         /\ inv[i].requested = <<>>
         /\ inv[i].pc \in {"load", "done"}
         /\ ~Has(inv[i].trace, "return_pending")
         /\ Done(i) => inv[i].result = [kind |-> "raise", value |-> inv[i].error]
  /\ \A i, j \in Invocations :
       (Done(i) /\ Done(j) /\ inv[i].mstate = "FAIL" /\ inv[j].mstate = "PENDING")
         => inv[i].result # inv[j].result

\* C3 witness: one call ended with a propagated exchange error.
C3_Witness ==
  \E i \in Invocations :
    /\ Done(i) /\ inv[i].mstate = "FAIL"
    /\ inv[i].result = [kind |-> "raise", value |-> "ExchangeError"]

\* C4: when the manager returned a credential, the body is invoked exactly
\* once; AuthenticatedFunctionTool adds the credential to the call arguments
\* iff the function has a parameter named credential, and otherwise passes the
\* caller's arguments as they are.
C4_ReadyInvokesBodyOnce ==
  \A i \in Invocations :
    /\ Len(inv[i].body) <= 1
    /\ (tool.credentials_manager /\ inv[i].mstate = "READY" /\ Resumed(i)) =>
         /\ Len(inv[i].body) = 1
         /\ inv[i].pc \in {"body", "done"}
         /\ tool.cls = "AuthenticatedFunctionTool" =>
              IF tool.func_has_credential
                THEN /\ DOMAIN inv[i].body[1].args = DOMAIN inv[i].args \cup {"credential"}
                     /\ inv[i].body[1].args["credential"] = inv[i].credential
                     /\ inv[i].body[1].args["query"] = inv[i].args["query"]
                ELSE inv[i].body[1].args = inv[i].args

\* C4 witness: a function without a credential parameter ran after a READY
\* outcome and the manager's credential was withheld.
C4_Witness ==
  \E i \in Invocations :
    /\ tool.cls = "AuthenticatedFunctionTool" /\ ~tool.func_has_credential
    /\ inv[i].mstate = "READY" /\ Done(i)
    /\ Len(inv[i].body) = 1
    /\ "credential" \notin DOMAIN inv[i].body[1].args

\* C5: a call returns the pending response only after request_credential has
\* recorded, in that invocation, a consent request for the tool's own
\* AuthConfig and the call's tool context; every call that ends pending has
\* recorded exactly that request.
C5_ConsentBeforePending ==
  \A i \in Invocations :
    /\ Has(inv[i].trace, "return_pending") =>
         /\ Before(inv[i].trace, "request_credential", "return_pending")
         /\ inv[i].requested =
              <<[key |-> tool.auth_config.credential_key, ctx |-> inv[i].ctx]>>
    /\ (Done(i) /\ inv[i].mstate = "PENDING") => Has(inv[i].trace, "return_pending")

\* C5 witness: a call ended pending with its consent request recorded.
C5_Witness ==
  \E i \in Invocations :
    /\ Done(i) /\ inv[i].mstate = "PENDING"
    /\ inv[i].ctx = ToolContext("app1", "user2")
    /\ Len(inv[i].requested) = 1

\* C8: a tool constructed with no AuthConfig has no Credential Manager: every
\* call invokes the body at once, looks up no credential, records no consent
\* request and never returns the pending response.
C8_NoAuthConfigNoGate ==
  tool.auth_config = NoAuthConfig =>
    /\ ~tool.credentials_manager
    /\ store = EmptyDict
    /\ \A i \in Invocations :
         inv[i].pc # "idle" =>
           /\ Len(inv[i].body) = 1
           /\ inv[i].body[1].credential = NoCredential
           /\ inv[i].mstate = "NONE"
           /\ inv[i].requested = <<>>
           /\ ~Has(inv[i].trace, "load_auth_credential")
           /\ ~Has(inv[i].trace, "return_pending")
           /\ Done(i) => inv[i].result = [kind |-> "return", value |-> "tool result"]

\* C8 witness: a call of a tool without AuthConfig returned the body's result.
C8_Witness ==
  /\ tool.auth_config = NoAuthConfig
  /\ \E i \in Invocations :
       Done(i) /\ inv[i].result = [kind |-> "return", value |-> "tool result"]

\* ------------------------------------------------------------------ manager claims
Rank(m) ==
  CASE m = "NONE" -> 0
    [] m = "LOOKUP" -> 1
    [] m = "CHECK_REFRESH" -> 2
    [] m \in {"REFRESH", "EXCHANGE"} -> 3
    [] m = "SAVE" -> 4
    [] OTHER -> 5

ManagerStep(i) ==
  \/ ManagerLookup(i)
  \/ ManagerCheckRefresh(i)
  \/ \E ok \in BOOLEAN, with_rt \in BOOLEAN : ManagerRefreshReturn(i, ok, with_rt)
  \/ \E ok \in BOOLEAN : ManagerExchangeReturn(i, ok)
  \/ ManagerSave(i)

\* C9: every manager invocation ends in exactly one of READY (a credential and
\* no error), FAIL (a refresh or exchange error and no credential) and PENDING
\* (neither); run_async resumes only from one of them; an invocation in
\* LOOKUP, CHECK_REFRESH, REFRESH, EXCHANGE or SAVE can always take its next
\* step, every step moves it forward, and a terminal outcome never changes.
C9_ExactlyOneOutcome ==
  /\ [](\A i \in Invocations :
          /\ (tool.credentials_manager /\ Resumed(i)) => inv[i].mstate \in Terminal
          /\ inv[i].mstate = "READY" =>
               (inv[i].credential # NoCredential /\ inv[i].error = None)
          /\ inv[i].mstate = "FAIL" =>
               (inv[i].credential = NoCredential
                  /\ inv[i].error \in {"RefreshError", "ExchangeError"})
          /\ inv[i].mstate = "PENDING" =>
               (inv[i].credential = NoCredential /\ inv[i].error = None)
          /\ inv[i].mstate \in Intermediate => ENABLED ManagerStep(i))
  /\ [][\A i \in Invocations :
          /\ inv[i].mstate \in Terminal => inv'[i].mstate = inv[i].mstate
          /\ inv'[i].mstate # inv[i].mstate => Rank(inv'[i].mstate) > Rank(inv[i].mstate)]_vars

\* C9 witness: the two calls of one tool ended in different terminal outcomes,
\* one READY and one FAIL.
C9_Witness ==
  \E i, j \in Invocations :
    /\ Done(i) /\ Done(j)
    /\ inv[i].mstate = "READY"
    /\ inv[j].mstate = "FAIL"

\* An OAuth2 credential that is not within the safety margin of its expiry
Unexpired(c, t) ==
  /\ c.auth_type = "OAUTH2"
  /\ c.expires_at # NoExpiry
  /\ c.expires_at > t + SafetyMargin

\* C10: a lookup that hits hands on exactly the stored credential and changes
\* no stored entry; when that credential is an unexpired OAuth2 credential the
\* manager goes to READY with it unchanged, invokes no refresh, issues no
\* token and leaves the store and the AuthConfig as they are.
C10_UnexpiredReturnedUnchanged ==
  /\ [][\A i \in Invocations :
          (inv[i].mstate = "LOOKUP" /\ inv'[i].mstate = "CHECK_REFRESH") =>
            /\ inv'[i].credential = Stored(store, Scope(i))
            /\ \A s \in Scopes : Stored(store', s) = Stored(store, s)]_vars
  /\ [][\A i \in Invocations :
          (inv[i].mstate = "CHECK_REFRESH" /\ inv'[i] # inv[i]
             /\ Unexpired(inv[i].credential, now)) =>
            /\ inv'[i].mstate = "READY"
            /\ inv'[i].credential = inv[i].credential
            /\ ~Has(inv'[i].trace, "refresh")
            /\ ~Has(inv'[i].trace, "save")
            /\ store' = store /\ tool' = tool /\ issued' = issued]_vars
  /\ [](\A i \in Invocations :
          (inv[i].pc = "body" /\ inv[i].trace = <<"load_auth_credential", "hit", "body">>
             /\ tool.cls = "BaseAuthenticatedTool") =>
            inv[i].body[1].credential = inv[i].credential)

\* C10 witness: a call found an unexpired stored credential, ended READY with
\* it and the store still holds it.
C10_Witness ==
  \E i \in Invocations :
    /\ inv[i].mstate = "READY"
    /\ inv[i].trace = <<"load_auth_credential", "hit">>
    /\ Unexpired(inv[i].credential, now)
    /\ Stored(store, Scope(i)) = inv[i].credential

\* An OAuth2 credential whose expires_at is in the past and that has a refresh
\* token
Expired(c, t) ==
  /\ c.auth_type = "OAUTH2"
  /\ c.expires_at # NoExpiry
  /\ c.expires_at < t
  /\ c.refresh_token # None

IssuedTokens == {Token(n) : n \in 1 .. issued}

C12_MissWithoutRawIsPending ==
  /\ [][\A i \in Invocations :
          (inv[i].mstate = "LOOKUP" /\ inv'[i] # inv[i]
             /\ Stored(store, Scope(i)) = NoCredential
             /\ tool.auth_config.raw_auth_credential = NoCredential) =>
            /\ inv'[i].mstate = "PENDING"
            /\ inv'[i].trace = <<"load_auth_credential", "miss">>
            /\ issued' = issued
            /\ tool' = tool
            /\ \A s \in Scopes : Stored(store', s) = Stored(store, s)]_vars
  /\ [](\A i \in Invocations :
          inv[i].mstate = "PENDING" =>
            /\ ManagerOutcome(i) = [ret |-> NoCredential, raised |-> None]
            /\ inv[i].credential = NoCredential
            /\ inv[i].error = None
            /\ ~Has(inv[i].trace, "refresh")
            /\ ~Has(inv[i].trace, "exchange")
            /\ ~Has(inv[i].trace, "save")
            /\ ~Has(inv[i].trace, "raise")
            /\ inv[i].pc \in {"load", "request", "done"})

\* C12 witness: a call for a user with nothing stored, under an AuthConfig
\* without raw credential, is PENDING while the other user's scope key of the
\* same tool holds a credential.
C12_Witness ==
  \E i \in Invocations :
    /\ inv[i].mstate = "PENDING"
    /\ inv[i].pc = "request"
    /\ tool.auth_config.raw_auth_credential = NoCredential
    /\ Stored(store, Scope(i)) = NoCredential
    /\ \E s \in Scopes : s[3] = ToolKey /\ Stored(store, s) # NoCredential

Count(q, e) == Cardinality({n \in DOMAIN q : q[n] = e})

AfterRefreshOrExchange(i) == Has(inv[i].trace, "refresh") \/ Has(inv[i].trace, "exchange")

\* C13: READY after a refresh or an exchange is entered only by the save step:
\* that step sets exchanged_auth_credential to the new credential and stores
\* it under the invocation's scope key, so that on entering READY the store
\* holds the new credential, which for a refresh differs from the one the
\* lookup found;
\* an invocation saves at most once and exchanged_auth_credential changes only
\* in a save step.
C13_SavedOnceBeforeReady ==
  /\ [][\A i \in Invocations :
          (AfterRefreshOrExchange(i) /\ inv[i].mstate # "READY" /\ inv'[i].mstate = "READY") =>
            /\ inv[i].mstate = "SAVE"
            /\ ~Has(inv[i].trace, "save")
            /\ inv'[i].credential = inv[i].credential
            /\ inv[i].credential # NoCredential
            /\ tool'.auth_config.exchanged_auth_credential = inv[i].credential
            /\ Stored(store', Scope(i)) = inv[i].credential
            /\ Has(inv[i].trace, "refresh") =>
                 Stored(store', Scope(i)).access_token \in IssuedTokens]_vars
  /\ [][\A i \in Invocations :
          (inv[i].mstate = "REFRESH" /\ inv'[i].mstate = "SAVE") =>
            /\ inv'[i].credential # inv[i].credential]_vars
  /\ [][tool' # tool =>
          \E i \in Invocations :
            /\ inv[i].mstate = "SAVE" /\ inv'[i].mstate = "READY"
            /\ tool' = [tool EXCEPT !.auth_config.exchanged_auth_credential = inv[i].credential]]_vars
  /\ [](\A i \in Invocations :
          /\ Count(inv[i].trace, "save") <= 1
          /\ inv[i].mstate = "SAVE" => ~Has(inv[i].trace, "save")
          /\ (inv[i].mstate = "READY" /\ AfterRefreshOrExchange(i)) =>
               /\ Count(inv[i].trace, "save") = 1
               /\ \/ Before(inv[i].trace, "refresh", "save")
                  \/ Before(inv[i].trace, "exchange", "save")
               /\ Resumed(i) => Before(inv[i].trace, "save", "body")
               /\ inv[i].credential \in written[Scope(i)].all)

\* C13 witness: a call is READY after the exchange of a service account
\* credential and the store and the AuthConfig hold the exchanged credential.
C13_Witness ==
  \E i \in Invocations :
    /\ inv[i].mstate = "READY"
    /\ inv[i].trace = <<"load_auth_credential", "exchange", "save">>
    /\ tool.auth_config.raw_auth_credential = ServiceAccountCred
    /\ inv[i].credential.auth_type = "OAUTH2"
    /\ Stored(store, Scope(i)) = inv[i].credential
    /\ tool.auth_config.exchanged_auth_credential = inv[i].credential

\* C14: a refresh of a credential without refresh token, or under a scheme no
\* token endpoint can be resolved from, fails; every refresh that fails ends
\* in FAIL with a refresh error and no credential, issues no token and leaves
\* the store and the AuthConfig as they were; FAIL is final, it hands
\* run_async the error and no credential, nothing was saved and the body is
\* not invoked; READY after a refresh always carries a newly issued token.
C14_FailedRefreshIsAnError ==
  /\ [][\A i \in Invocations :
          (inv[i].mstate = "REFRESH" /\ inv'[i] # inv[i]
             /\ \/ inv[i].credential.refresh_token = None
                \/ tool.auth_config.auth_scheme \in {None, "apiKey", "http"}) =>
            inv'[i].mstate = "FAIL"]_vars
  /\ [][\A i \in Invocations :
          (inv[i].mstate = "REFRESH" /\ inv'[i] # inv[i] /\ inv'[i].mstate # "SAVE") =>
            /\ inv'[i].mstate = "FAIL"
            /\ inv'[i].error = "RefreshError"
            /\ inv'[i].credential = NoCredential
            /\ store' = store /\ written' = written
            /\ tool' = tool
            /\ issued' = issued]_vars
  /\ [][\A i \in Invocations : inv[i].mstate = "FAIL" => inv'[i].mstate = "FAIL"]_vars
  /\ [](\A i \in Invocations :
          /\ (inv[i].mstate = "FAIL" /\ inv[i].error = "RefreshError") =>
               /\ ManagerOutcome(i) = [ret |-> NoCredential, raised |-> "RefreshError"]
               /\ SubSeq(inv[i].trace, 1, 3) = <<"load_auth_credential", "hit", "refresh">>
               /\ ~Has(inv[i].trace, "save")
               /\ inv[i].body = <<>>
          /\ (inv[i].mstate = "READY" /\ Has(inv[i].trace, "refresh")) =>
               /\ Has(inv[i].trace, "save")
               /\ inv[i].error = None
               /\ inv[i].credential.access_token \in IssuedTokens)

\* C14 witness: the refresh of a stored credential that has no refresh token
\* failed, run_async raised the refresh error and the store still holds that
\* credential.
C14_Witness ==
  \E i \in Invocations :
    /\ Done(i) /\ inv[i].mstate = "FAIL"
    /\ inv[i].result = [kind |-> "raise", value |-> "RefreshError"]
    /\ Stored(store, Scope(i)).auth_type = "OAUTH2"
    /\ Stored(store, Scope(i)).refresh_token = None
    /\ tool.auth_config.auth_scheme = "oauth2"

\* C15: run_async awaits load_auth_credential at most once per invocation and
\* the manager attempts at most one refresh and at most one exchange in it,
\* never both; an attempt ends in SAVE or in FAIL; FAIL is final: the manager
\* takes no further step, the invocation attempts nothing more and never goes
\* back to an earlier position, and run_async ends by raising the error.
C15_SingleAttemptNoRetry ==
  /\ [](\A i \in Invocations :
          /\ Count(inv[i].trace, "load_auth_credential") <= 1
          /\ Count(inv[i].trace, "refresh") <= 1
          /\ Count(inv[i].trace, "exchange") <= 1
          /\ Count(inv[i].trace, "refresh") + Count(inv[i].trace, "exchange") <= 1
          /\ inv[i].mstate = "FAIL" =>
               /\ Count(inv[i].trace, "refresh") + Count(inv[i].trace, "exchange") = 1
               /\ ~ENABLED ManagerStep(i)
               /\ Done(i) => inv[i].result = [kind |-> "raise", value |-> inv[i].error])
  /\ [][\A i \in Invocations :
          /\ (inv[i].mstate \in {"REFRESH", "EXCHANGE"} /\ inv'[i] # inv[i]) =>
               inv'[i].mstate \in {"SAVE", "FAIL"}
          /\ inv[i].mstate = "FAIL" =>
               /\ inv'[i].mstate = "FAIL"
               /\ inv'[i].error = inv[i].error
               /\ Count(inv'[i].trace, "refresh") = Count(inv[i].trace, "refresh")
               /\ Count(inv'[i].trace, "exchange") = Count(inv[i].trace, "exchange")
               /\ inv'[i].pc \in {inv[i].pc, "done"}
          /\ inv[i].pc # "idle" => inv'[i].pc \notin {"idle"}
          /\ inv[i].pc \notin {"idle", "load"} => inv'[i].pc # "load"]_vars

\* C15 witness: both calls of one tool failed, one attempt each: the first
\* ended by raising its error and the second is in FAIL after its own attempt.
C15_Witness ==
  \E i, j \in Invocations :
    /\ i # j
    /\ Done(i) /\ inv[i].mstate = "FAIL"
    /\ inv[i].trace = <<"load_auth_credential", "hit", "refresh", "raise">>
    /\ inv[j].mstate = "FAIL"
    /\ inv[j].trace = <<"load_auth_credential", "hit", "refresh">>

\* ------------------------------------------------------------------ helpers called on their own
FnFrame == UNCHANGED <<storeVars, tool, inv, now, issued, webApp>>

\* OAuth2 payloads and token responses update_credential_with_tokens is
\* called with
Payloads ==
  {OAuth2Auth("client", "secret", at, rt, ea, ei) :
     at \in {None, "old-at"}, rt \in {None, "old-rt"}, ea \in {NoneInt, 1}, ei \in {NoneInt, 3600}}

\* A key the token response lacks
Absent == "absent"
AbsentNum == -2

\* The dict with the keys that are not absent
Tokens(at, rt, ea, ei) ==
  (IF at # Absent THEN "access_token" :> at ELSE EmptyDict)
    @@ (IF rt # Absent THEN "refresh_token" :> rt ELSE EmptyDict)
    @@ (IF ea # AbsentNum THEN "expires_at" :> ea ELSE EmptyDict)
    @@ (IF ei # AbsentNum THEN "expires_in" :> ei ELSE EmptyDict)

TokenResponses ==
  {Tokens(at, rt, ea, ei) :
     at \in {Absent, "new-at"}, rt \in {Absent, "new-rt"},
     ea \in {AbsentNum, 0, 25, 30}, ei \in {AbsentNum, 0, 36000}}

CallUpdateCredentialWithTokens(oauth2, tokens) ==
  /\ fn' = [name |-> "update_credential_with_tokens", oauth2 |-> oauth2,
            tokens |-> tokens, result |-> UpdateOAuth2Auth(oauth2, tokens)]
  /\ FnFrame

\* Credentials, schemes and clock values needs_refresh is called with
RefreshCheckCreds ==
  {Cred("OAUTH2", "at", rt, ea) : rt \in {None, "rt"}, ea \in {NoExpiry} \cup (1 .. FarFuture)}
    \cup {ApiKeyCred, ServiceAccountCred}
SchemeTags == {"oauth2", "openIdConnect", "apiKey", "http"}
Times == 1 .. MaxTime + 1

CallNeedsRefresh(c, scheme, t) ==
  /\ fn' = [name |-> "needs_refresh", credential |-> c, scheme |-> scheme, now |-> t,
            result |-> NeedsRefresh(c, t)]
  /\ FnFrame

\* Schemes and credentials create_oauth2_session is called with
ScopeItem(name) == [name |-> name, description |-> "may " \o name]
ScopeDicts == {<<>>, <<ScopeItem("read")>>, <<ScopeItem("read"), ScopeItem("write")>>}
AuthCodeFlows ==
  {Flow(url, sc) : url \in {None, "", "https://idp/token"}, sc \in ScopeDicts}
ClientCredentialsFlows == {Flow("https://idp/cc-token", <<ScopeItem("admin")>>)}
SessionSchemes ==
  {OpenIdConnectWithConfig(url, sc) :
     url \in {"https://oidc/token", ""}, sc \in {<<>>, <<"openid">>, <<"openid", "email">>}}
    \cup {OAuth2(ac, cc) : ac \in AuthCodeFlows \cup {NoFlow},
                           cc \in ClientCredentialsFlows \cup {NoFlow}}
    \cup {OtherScheme(t) : t \in {"apiKey", "http", None}}
SessionCredentials ==
  {NoAuthCredential, AuthCredential("API_KEY", NoOAuth2)}
    \cup {AuthCredential("OAUTH2", OAuth2Auth(id, secret, None, None, NoneInt, NoneInt)) :
            id \in {None, "", "client"}, secret \in {None, "", "secret"}}

CallCreateOAuth2Session(auth_scheme, auth_credential) ==
  /\ fn' = [name |-> "create_oauth2_session", scheme |-> auth_scheme,
            credential |-> auth_credential,
            result |-> CreateOAuth2Session(auth_scheme, auth_credential)]
  /\ FnFrame

\* Credentials and environments exchange is called with
ServiceAccounts ==
  {ServiceAccount(key, flag, scopes) :
     key \in {NoKey, "good-key", MalformedKey}, flag \in BOOLEAN,
     scopes \in {<<>>, <<"https://www.googleapis.com/auth/cloud-platform">>}}
ExchangeCredentials ==
  {NoSaCredential}
    \cup {SaCredential(type, sa) : type \in {"SERVICE_ACCOUNT", "API_KEY"},
                                   sa \in ServiceAccounts \cup {NoServiceAccount}}
Environments == [default_ok : BOOLEAN, refresh_ok : BOOLEAN]

CallExchange(auth_credential, env) ==
  /\ fn' = [name |-> "exchange", credential |-> auth_credential, env |-> env,
            outcome |-> ServiceAccountExchange(auth_credential, env)]
  /\ FnFrame

\* What awaiting load_auth_credential can do: return no credential, return
\* one, or raise
ManagerOutcomes ==
  {[ret |-> NoCredential, raised |-> None],
   [ret |-> CredA, raised |-> None],
   [ret |-> NoCredential, raised |-> "RefreshError"],
   [ret |-> NoCredential, raised |-> "ExchangeError"]}

\* One tool of each wrapper class built from the same arguments and run on the
\* same outcome of the manager
CallRunAsync(auth_config, unauthenticated_response, out) ==
  /\ fn' = [name |-> "run_async", auth_config |-> auth_config,
            response |-> unauthenticated_response, out |-> out,
            aft |-> RunAsync(NewTool("AuthenticatedFunctionTool", TRUE, auth_config,
                                     unauthenticated_response), out),
            bat |-> RunAsync(NewTool("BaseAuthenticatedTool", TRUE, auth_config,
                                     unauthenticated_response), out)]
  /\ FnFrame

NextFn ==
  \/ \E auth_config \in AuthConfigs, r \in Responses \cup {EmptyObject, ObjectResponse},
          out \in ManagerOutcomes :
       CallRunAsync(auth_config, r, out)
  \/ \E oauth2 \in Payloads, tokens \in TokenResponses :
       CallUpdateCredentialWithTokens(oauth2, tokens)
  \/ \E c \in RefreshCheckCreds, scheme \in SchemeTags, t \in Times :
       CallNeedsRefresh(c, scheme, t)
  \/ \E auth_scheme \in SessionSchemes, auth_credential \in SessionCredentials :
       CallCreateOAuth2Session(auth_scheme, auth_credential)
  \/ \E auth_credential \in ExchangeCredentials, env \in Environments :
       CallExchange(auth_credential, env)

SpecFn == InitStore /\ [][NextFn]_vars

\* C16: after update_credential_with_tokens with a token response that has no
\* refresh token, the credential carries the refresh token it had before, and
\* its access token and expiry fields are those of the response.
C16_RefreshTokenCarriedOver ==
  (fn.name = "update_credential_with_tokens" /\ "refresh_token" \notin DOMAIN fn.tokens) =>
    /\ fn.result.refresh_token = fn.oauth2.refresh_token
    /\ fn.result.access_token = TokensGetStr(fn.tokens, "access_token")
    /\ "expires_at" \in DOMAIN fn.tokens /\ fn.tokens["expires_at"] # 0 =>
         fn.result.expires_at = PyInt(fn.tokens["expires_at"])
    /\ "expires_in" \in DOMAIN fn.tokens /\ fn.tokens["expires_in"] # 0 =>
         fn.result.expires_in = PyInt(fn.tokens["expires_in"])

\* needs_refresh was called on an OAuth2 credential with a refresh token under
\* a scheme a token endpoint resolves from
RefreshCheckCase ==
  /\ fn.name = "needs_refresh"
  /\ fn.credential.auth_type = "OAUTH2"
  /\ fn.credential.refresh_token # None
  /\ fn.scheme \in {"oauth2", "openIdConnect"}

SessionCall == fn.name = "create_oauth2_session"

\* The credential create_oauth2_session was called with has an OAuth2 payload
\* with client id and client secret
CompleteCredential ==
  /\ fn.credential # NoAuthCredential
  /\ fn.credential.oauth2 # NoOAuth2
  /\ fn.credential.oauth2.client_id \notin {None, ""}
  /\ fn.credential.oauth2.client_secret \notin {None, ""}

\* C18: create_oauth2_session resolves the token endpoint from the scheme
\* only. OpenIdConnect: a session is made for every complete credential, with
\* the scheme's token endpoint and scopes. OAuth2: with an authorizationCode
\* flow that has a tokenUrl, a session is made for every complete credential,
\* with that tokenUrl and the scope names of that flow; with no
\* authorizationCode flow or no tokenUrl there is no session and no endpoint,
\* whatever other flow the scheme has. Any other scheme: no session and no
\* endpoint.
C18_EndpointFromSchemeOnly ==
  SessionCall =>
    /\ fn.scheme.type = "openIdConnect" =>
         /\ CompleteCredential => fn.result.session # NoSession
         /\ fn.result.session # NoSession =>
              /\ fn.result.token_endpoint = fn.scheme.token_endpoint
              /\ fn.result.session.scope = Join(fn.scheme.scopes)
    /\ fn.scheme.type = "oauth2" =>
         LET ac == fn.scheme.flows.authorizationCode
         IN IF ac = NoFlow \/ ac.tokenUrl \in {None, ""}
              THEN fn.result = NoSessionResult
              ELSE /\ CompleteCredential => fn.result.session # NoSession
                   /\ fn.result.session # NoSession =>
                        /\ fn.result.token_endpoint = ac.tokenUrl
                        /\ fn.result.session.scope =
                             Join([n \in DOMAIN ac.scopes |-> ac.scopes[n].name])
    /\ fn.scheme.type \notin {"openIdConnect", "oauth2"} => fn.result = NoSessionResult
    /\ fn.result.session = NoSession <=> fn.result.token_endpoint = None

\* C18 witness: an OAuth2 scheme whose authorizationCode flow has a tokenUrl
\* and two scopes, next to a clientCredentials flow, gave a session with that
\* tokenUrl and both scope names.
C18_Witness ==
  /\ SessionCall
  /\ fn.scheme.type = "oauth2"
  /\ fn.scheme.flows.clientCredentials # NoFlow
  /\ fn.result.token_endpoint = "https://idp/token"
  /\ fn.result.session # NoSession
  /\ fn.result.session.scope = "read write"

ExchangeCall == fn.name = "exchange"

ValidationErrors ==
  {"Credential cannot be None", "Credential is not a service account credential",
   "Service account credentials are missing", "Service account credentials are invalid"}

\* C19: exchange rejects, in this order and without any call on the
\* environment, an absent credential, a credential whose tag is not service
\* account (whatever else it holds), a service account credential with no
\* service_account sub-object, and a service account with neither embedded
\* key nor use-default flag, each with its own error; no other input gets one
\* of these four errors.
C19_ValidationErrorsInOrder ==
  ExchangeCall =>
    LET c == fn.credential
        out == fn.outcome
        absent == c = NoSaCredential
        wrong_tag == ~absent /\ c.auth_type # "SERVICE_ACCOUNT"
        no_sub == ~absent /\ ~wrong_tag /\ c.service_account = NoServiceAccount
        neither == /\ ~absent /\ ~wrong_tag /\ ~no_sub
                   /\ c.service_account.service_account_credential = NoKey
                   /\ ~c.service_account.use_default_credential
    IN /\ absent => out.raised = "Credential cannot be None"
       /\ wrong_tag => out.raised = "Credential is not a service account credential"
       /\ no_sub => out.raised = "Service account credentials are missing"
       /\ neither => out.raised = "Service account credentials are invalid"
       /\ (absent \/ wrong_tag \/ no_sub \/ neither) <=> out.raised \in ValidationErrors
       /\ out.raised \in ValidationErrors =>
            (out.calls = <<>> /\ out.result = NoExchangeResult)
       /\ Cardinality(ValidationErrors) = 4

\* C19 witness: a credential tagged API key that has no service_account
\* sub-object either was rejected for its tag.
C19_Witness ==
  /\ ExchangeCall
  /\ fn.credential # NoSaCredential
  /\ fn.credential.auth_type = "API_KEY"
  /\ fn.credential.service_account = NoServiceAccount
  /\ fn.outcome.raised = "Credential is not a service account credential"
  /\ fn.outcome.calls = <<>>

CallsOf(q, name) == Cardinality({n \in DOMAIN q : q[n].fn = name})

\* C20: an exchange that succeeds has resolved credentials from exactly one
\* source and then acquired a token exactly once. With the use-default flag
\* and no embedded key the source is the ambient default credentials, with an
\* embedded key and no flag it is the key with the requested scopes, the other
\* source never being used; both succeed when the source and the token
\* acquisition do; the result is tagged OAuth2 and carries the token acquired
\* from that source.
C20_OneSourceOneAcquisition ==
  (ExchangeCall /\ fn.credential # NoSaCredential
     /\ fn.credential.auth_type = "SERVICE_ACCOUNT"
     /\ fn.credential.service_account # NoServiceAccount) =>
    LET sa == fn.credential.service_account
        out == fn.outcome
        key == sa.service_account_credential
        ambient == sa.use_default_credential /\ key = NoKey
        embedded == ~sa.use_default_credential /\ key # NoKey
    IN /\ (ambient /\ fn.env.default_ok /\ fn.env.refresh_ok) => out.raised = None
       /\ (embedded /\ key = "good-key" /\ fn.env.refresh_ok) => out.raised = None
       /\ out.raised = None =>
            /\ Len(out.calls) = 2
            /\ CallsOf(out.calls, "credentials.refresh") = 1
            /\ out.calls[2].fn = "credentials.refresh"
            /\ CallsOf(out.calls, "google.auth.default")
                  + CallsOf(out.calls, "from_service_account_info") = 1
            /\ out.result.auth_type = "OAUTH2"
            /\ ambient =>
                 /\ out.calls[1].fn = "google.auth.default"
                 /\ out.result.google_oauth2_json = ToJson("default_access_token")
            /\ embedded =>
                 /\ out.calls[1] = [fn |-> "from_service_account_info", key |-> key,
                                     scopes |-> sa.scopes]
                 /\ out.result.google_oauth2_json = ToJson("mock_access_token")

\* C20 witness: an exchange with an embedded key, one requested scope and no
\* use-default flag succeeded while no ambient credentials were available.
C20_Witness ==
  /\ ExchangeCall
  /\ fn.outcome.raised = None
  /\ ~fn.env.default_ok
  /\ ~fn.credential.service_account.use_default_credential
  /\ fn.credential.service_account.service_account_credential = "good-key"
  /\ Len(fn.credential.service_account.scopes) = 1
  /\ fn.outcome.result.auth_type = "OAUTH2"

\* exchange was called with a credential that passes the input validation
ValidatedExchangeCall ==
  /\ ExchangeCall
  /\ fn.outcome.raised \notin ValidationErrors

\* s begins with prefix
StartsWith(s, prefix) ==
  Len(s) >= Len(prefix) /\ SubSeq(s, 1, Len(prefix)) = prefix

\* C21: an exchange that passed the input validation and then fails, because
\* the embedded key is malformed, no ambient credentials are available or the
\* token acquisition fails, raises the one error "Failed to exchange service
\* account token" followed by the cause of the step that failed, and returns
\* no credential; every exchange either raises and returns nothing or returns
\* a credential with its token populated.
C21_FailureWrapsCause ==
  /\ ExchangeCall =>
       (fn.outcome.raised # None <=> fn.outcome.result = NoExchangeResult)
  /\ ValidatedExchangeCall =>
       LET sa == fn.credential.service_account
           out == fn.outcome
           bad_key == ~sa.use_default_credential /\ sa.service_account_credential = MalformedKey
           no_ambient == sa.use_default_credential /\ ~fn.env.default_ok
           no_token == ~bad_key /\ ~no_ambient /\ ~fn.env.refresh_ok
       IN /\ bad_key =>
               out.raised = "Failed to exchange service account token: Invalid private key"
          /\ no_ambient =>
               out.raised = "Failed to exchange service account token: No default credentials found"
          /\ no_token =>
               out.raised = "Failed to exchange service account token: Network error during refresh"
          /\ (bad_key \/ no_ambient \/ no_token) <=> out.raised # None
          /\ out.raised # None =>
               /\ StartsWith(out.raised, "Failed to exchange service account token")
               /\ out.result = NoExchangeResult
          /\ out.raised = None =>
               /\ out.result.auth_type = "OAUTH2"
               /\ out.result.google_oauth2_json \in {ToJson(DefaultToken), ToJson(KeyToken)}

\* C21 witness: credentials were built from a well-formed key, the token
\* acquisition was attempted and failed, and the exchange raised the wrapping
\* error without a credential.
C21_Witness ==
  /\ ValidatedExchangeCall
  /\ fn.credential.service_account.service_account_credential = "good-key"
  /\ ~fn.credential.service_account.use_default_credential
  /\ Len(fn.outcome.calls) = 2
  /\ fn.outcome.raised = "Failed to exchange service account token: Network error during refresh"
  /\ fn.outcome.result = NoExchangeResult

\* ------------------------------------------------------------------ lifecycle claims
\* The tool author's raw credential is an OAuth2 or a service account credential
RawNeedsExchange ==
  /\ tool.credentials_manager
  /\ tool.auth_config.raw_auth_credential.auth_type \in {"OAUTH2", "SERVICE_ACCOUNT"}

\* The wrapper handed a credential to the body of invocation i
Receives(i) ==
  /\ Len(inv[i].body) = 1
  /\ tool.cls = "AuthenticatedFunctionTool" => tool.func_has_credential

\* The credential the wrapper handed to the body of invocation i
Received(i) ==
  IF tool.cls = "AuthenticatedFunctionTool"
    THEN inv[i].body[1].args["credential"]
    ELSE inv[i].body[1].credential

PendingBefore(j) ==
  \E i \in Invocations \ {j} :
    /\ Done(i) /\ inv[i].mstate = "PENDING"
    /\ Scope(i) = Scope(j)

\* Invocation j found a credential at LOOKUP under a scope key for which
\* another invocation had ended PENDING
Retried(j) == PendingBefore(j) /\ Has(inv[j].trace, "hit")

\* C23 as stated: after an invocation ended PENDING and a credential was
\* stored under the same scope key, an invocation of the tool for that scope
\* that finds it at LOOKUP invokes the tool body, whatever the credential.
C23_RetryInvokesBody ==
  \A j \in Invocations :
    (Retried(j) /\ Resumed(j)) =>
      /\ Len(inv[j].body) = 1
      /\ ~Has(inv[j].trace, "return_pending")

\* C23, amended: after an invocation ended PENDING, once a credential is
\* stored under the same scope key, the LOOKUP of an invocation of the tool
\* for that scope finds exactly that credential; that invocation never ends
\* PENDING, records no consent request and never returns the pending
\* response; it invokes the tool body once, unless the credential found needs
\* a refresh and the refresh fails, in which case the refresh error is raised
\* and the body is not invoked.
C23_RetryFindsCredential ==
  /\ [][\A j \in Invocations :
          (inv[j].mstate = "LOOKUP" /\ inv'[j] # inv[j] /\ PendingBefore(j)
             /\ written[Scope(j)].last # NoCredential) =>
            /\ inv'[j].mstate = "CHECK_REFRESH"
            /\ inv'[j].credential = written[Scope(j)].last]_vars
  /\ [](\A j \in Invocations :
          Retried(j) =>
            /\ inv[j].mstate # "PENDING"
            /\ inv[j].requested = <<>>
            /\ ~Has(inv[j].trace, "return_pending")
            /\ Resumed(j) =>
                 \/ /\ inv[j].mstate = "READY"
                    /\ Len(inv[j].body) = 1
                    /\ inv[j].pc \in {"body", "done"}
                    /\ Done(j) => inv[j].result = [kind |-> "return", value |-> "tool result"]
                 \/ /\ inv[j].mstate = "FAIL"
                    /\ inv[j].error = "RefreshError"
                    /\ Has(inv[j].trace, "refresh")
                    /\ inv[j].body = <<>>
                    /\ inv[j].result = [kind |-> "raise", value |-> "RefreshError"]
            /\ (Resumed(j) /\ ~Has(inv[j].trace, "refresh")) => Len(inv[j].body) = 1)

\* C23 witness: one call returned the pending response, a credential was then
\* delivered under its scope key, and the other call for that scope found it
\* and returned the body's result.
C23_Witness ==
  \E i, j \in Invocations :
    /\ Done(i) /\ inv[i].mstate = "PENDING"
    /\ Has(inv[i].trace, "return_pending")
    /\ Scope(i) = Scope(j)
    /\ Done(j)
    /\ inv[j].trace = <<"load_auth_credential", "hit", "body", "return_result">>
    /\ inv[j].credential = Stored(store, Scope(j))
    /\ inv[j].credential.access_token = "user-token"

\* ------------------------------------------------------------------ concurrent store calls
\* Scope keys the concurrent calls are made for: two users of one app, two
\* apps, two keys of one user
TaskScopes ==
  {<<"app1", "user1", "key1">>, <<"app1", "user2", "key1">>,
   <<"app2", "user1", "key1">>, <<"app1", "user1", "key2">>}
TaskCreds == {CredA, CredB}

\* A caller creates the coroutine of a store call as a task; nothing of it
\* has run yet
Spawn(t, op, s, c) ==
  /\ tasks[t].state = "none"
  /\ \A u \in TaskIds : u < t => tasks[u].state # "none"
  /\ op = "load" => c = NoCredential
  /\ op = "save" => c # NoCredential
  /\ tasks' = [tasks EXCEPT ![t] = [NoTask EXCEPT !.state = "pending", !.op = op,
                                                  !.scope = s, !.cred = c]]
  /\ UNCHANGED <<store, call, written, calls, toolVars, webApp>>

\* The event loop runs a pending save_credential: its body has no await, so
\* it runs from its first statement to its return before any other task
RunSave(t) ==
  /\ tasks[t].state = "pending" /\ tasks[t].op = "save"
  /\ LET s == tasks[t].scope
     IN /\ store' = SaveCredential(store, AuthConfig("oauth2", RawCred, tasks[t].cred, s[3]),
                                   ToolContext(s[1], s[2]))
        /\ written' = [written EXCEPT ![s] = Record(@, tasks[t].cred)]
  /\ calls' = calls + 1
  /\ tasks' = [tasks EXCEPT ![t].state = "done", ![t].order = calls + 1]
  /\ UNCHANGED <<call, toolVars, webApp>>

\* The event loop runs a pending load_credential, likewise without suspension
RunLoad(t) ==
  /\ tasks[t].state = "pending" /\ tasks[t].op = "load"
  /\ LET s == tasks[t].scope
         r == LoadCredential(store, AuthConfig("oauth2", RawCred, NoCredential, s[3]),
                             ToolContext(s[1], s[2]))
     IN /\ store' = r.store
        /\ tasks' = [tasks EXCEPT ![t].state = "done", ![t].order = calls + 1,
                                  ![t].ret = r.ret, ![t].raised = r.raised]
  /\ calls' = calls + 1
  /\ UNCHANGED <<call, written, toolVars, webApp>>

NextTasks ==
  \/ \E t \in TaskIds, s \in TaskScopes, c \in TaskCreds : Spawn(t, "save", s, c)
  \/ \E t \in TaskIds, s \in TaskScopes : Spawn(t, "load", s, NoCredential)
  \/ \E t \in TaskIds : RunSave(t)
  \/ \E t \in TaskIds : RunLoad(t)

SpecTasks == InitStore /\ [][NextTasks]_vars

\* ------------------------------------------------------------------ concurrency claims
SaveTask(t) == tasks[t].op = "save"
LoadTask(t) == tasks[t].op = "load"
Completed(t) == tasks[t].state = "done"

\* No other save task is for the scope key of task t
OnlySaveOfScope(t) ==
  \A u \in TaskIds \ {t} : SaveTask(u) => tasks[u].scope # tasks[t].scope

\* C24: with save_credential calls for different scope keys in flight at once
\* and run in any order, the store holds the credential of every completed
\* save under its own scope key, whatever other calls are pending or done and
\* whether or not the app or the user had a container before; running a save
\* changes what is stored under no other scope key; a load that runs after
\* the save of its scope key returns that credential and raises nothing; and
\* the store never holds a value under a scope key that no save was made for.
C24_DifferentScopesSafe ==
  /\ [](\A t \in TaskIds :
          (SaveTask(t) /\ Completed(t) /\ OnlySaveOfScope(t)) =>
            /\ Stored(store, tasks[t].scope) = tasks[t].cred
            /\ \A l \in TaskIds :
                 (LoadTask(l) /\ Completed(l) /\ tasks[l].scope = tasks[t].scope
                    /\ tasks[l].order > tasks[t].order) =>
                   (tasks[l].ret = tasks[t].cred /\ tasks[l].raised = None))
  /\ [](\A s \in Scopes :
          IF written[s] = NeverWritten
            THEN Stored(store, s) = NoCredential
            ELSE Stored(store, s) \in written[s].all)
  /\ [][\A t \in TaskIds :
          (SaveTask(t) /\ tasks[t].state = "pending" /\ tasks'[t].state = "done") =>
            \A s \in Scopes \ {tasks[t].scope} : Stored(store', s) = Stored(store, s)]_vars

\* C24 witness: saves for two users of one app were in flight together, neither
\* user nor the app having been seen before; the one created second ran
\* first; both credentials are stored and a later load for the first user
\* returned the first user's.
C24_Witness ==
  /\ tasks[1] = [NoTask EXCEPT !.state = "done", !.op = "save", !.order = 2,
                               !.scope = <<"app1", "user1", "key1">>, !.cred = CredA]
  /\ tasks[2] = [NoTask EXCEPT !.state = "done", !.op = "save", !.order = 1,
                               !.scope = <<"app1", "user2", "key1">>, !.cred = CredB]
  /\ tasks[3].op = "load" /\ tasks[3].state = "done"
  /\ tasks[3].scope = <<"app1", "user1", "key1">>
  /\ tasks[3].ret = CredA
  /\ Stored(store, <<"app1", "user2", "key1">>) = CredB

\* The completed saves for scope key s
CompletedSaves(s) ==
  {t \in TaskIds : SaveTask(t) /\ Completed(t) /\ tasks[t].scope = s}

\* The save for scope key s that completed last, before the call that
\* completed as number n
LastSaveBefore(s, n) ==
  CHOOSE t \in CompletedSaves(s) :
    /\ tasks[t].order < n
    /\ \A u \in CompletedSaves(s) : tasks[u].order < n => tasks[u].order <= tasks[t].order

\* C25: when several saves for one scope key are in flight and run in any
\* order, the store holds under that scope key exactly the credential of the
\* save that completed last, whichever was created first: a whole credential
\* of one of the saves, never none once a save has completed, never the
\* credential of an earlier completion; and a load returns the credential of
\* the last save completed before it ran.
C25_LastCompletedSaveWins ==
  /\ \A s \in TaskScopes :
       CompletedSaves(s) # {} =>
         /\ Stored(store, s) = tasks[LastSaveBefore(s, MaxTasks + 1)].cred
         /\ Stored(store, s) # NoCredential
         /\ Stored(store, s) \in {tasks[t].cred : t \in CompletedSaves(s)}
  /\ \A l \in TaskIds :
       (LoadTask(l) /\ Completed(l)) =>
         IF \E t \in CompletedSaves(tasks[l].scope) : tasks[t].order < tasks[l].order
           THEN tasks[l].ret = tasks[LastSaveBefore(tasks[l].scope, tasks[l].order)].cred
           ELSE tasks[l].ret = NoCredential

\* C25 witness: two saves of different credentials for one scope key were in
\* flight together; the one created first completed last, and the store and a
\* later load hold its credential.
C25_Witness ==
  /\ tasks[1] = [NoTask EXCEPT !.state = "done", !.op = "save", !.order = 2,
                               !.scope = <<"app1", "user1", "key1">>, !.cred = CredA]
  /\ tasks[2] = [NoTask EXCEPT !.state = "done", !.op = "save", !.order = 1,
                               !.scope = <<"app1", "user1", "key1">>, !.cred = CredB]
  /\ tasks[3].op = "load" /\ tasks[3].state = "done"
  /\ tasks[3].scope = <<"app1", "user1", "key1">>
  /\ tasks[3].ret = CredA
  /\ Stored(store, <<"app1", "user1", "key1">>) = CredA

\* Invocations i and j, for one scope key, have both found a stored
\* credential, refreshed it, saved the result and ended READY, and nothing
\* was stored under the scope key after their saves
BothRefreshed(i, j) ==
  /\ i # j
  /\ Scope(i) = Scope(j)
  /\ \A k \in {i, j} :
       /\ inv[k].mstate = "READY"
       /\ Len(inv[k].trace) >= 4
       /\ SubSeq(inv[k].trace, 1, 4) = <<"load_auth_credential", "hit", "refresh", "save">>
  /\ written[Scope(i)].last \in {inv[i].credential, inv[j].credential}

\* The number of the access token tok in the order the tokens were issued
TokenNum(tok) == CHOOSE n \in 1 .. issued : Token(n) = tok

\* A credential as a successful refresh leaves it
RefreshedCredential(c) ==
  /\ c.auth_type = "OAUTH2"
  /\ c.access_token \in IssuedTokens
  /\ c.expires_at >= 1 + TokenLifetime

HasEntry(st, s) ==
  /\ s[1] \in DOMAIN st
  /\ s[2] \in DOMAIN st[s[1]]
  /\ s[3] \in DOMAIN st[s[1]][s[2]]

\* C27 as stated: once a load has returned a credential for a scope key, a
\* load of that scope key returns a credential after any further save and
\* load calls.
C27_LoadedStaysLoaded ==
  \A s \in LoadedScopes : Stored(store, s) # NoCredential

\* C27, amended: no call removes an entry, a per-user dict or a per-app dict
\* from the store; once a load has returned a credential for a scope key, the
\* entry is there for good and a load of the scope key returns what was saved
\* last under it: a credential (the first one or one saved later), unless the
\* last save for the scope key carried no exchanged credential, which stores
\* None in the entry.
C27_EntriesAreNeverRemoved ==
  /\ [](\A s \in LoadedScopes :
          /\ HasEntry(store, s)
          /\ Stored(store, s) = written[s].last
          /\ Stored(store, s) = NoCredential => NoCredential \in written[s].all
          /\ NoCredential \notin written[s].all => Stored(store, s) \in {CredA, CredB})
  /\ [](call.op = "load" /\ call.scope \in call.seen =>
          /\ call.raised = None
          /\ call.ret = written[call.scope].last)
  /\ [][\A s \in Scopes : HasEntry(store, s) => HasEntry(store', s)]_vars
  /\ [][\A s \in Scopes :
          (Stored(store, s) # NoCredential /\ Stored(store', s) = NoCredential) =>
            (call'.op = "save" /\ call'.scope = s /\ call'.cred = NoCredential)]_vars

\* C27 witness: a credential was saved, a load returned it, and a second
\* load of the scope key returned it again.
C27_Witness ==
  /\ call.op = "load"
  /\ call.scope \in call.seen
  /\ call.ret = CredA
  /\ written[call.scope].all = {CredA}
  /\ calls = 3

\* The keys the per-user dict of app a and user u has an entry for
EntryKeys(st, a, u) ==
  IF a \in DOMAIN st /\ u \in DOMAIN st[a] THEN DOMAIN st[a][u] ELSE {}

\* C28: for every app and user the store has exactly one entry for each
\* credential key a save was made with and no other entry, however many
\* credentials were saved with that key; a save with a key that already has
\* an entry adds no entry and replaces the entry's credential with its own,
\* so that a load with the key returns the second credential.
C28_SameKeyCollapses ==
  /\ [](\A a \in Apps, u \in Users :
          /\ EntryKeys(store, a, u) = {k \in Keys : written[<<a, u, k>>] # NeverWritten}
          /\ \A k \in EntryKeys(store, a, u) : store[a][u][k] = written[<<a, u, k>>].last)
  /\ [][(call'.op = "save" /\ calls' = calls + 1
           /\ written[call'.scope] # NeverWritten) =>
          /\ EntryKeys(store', call'.scope[1], call'.scope[2])
               = EntryKeys(store, call'.scope[1], call'.scope[2])
          /\ Stored(store', call'.scope) = call'.cred]_vars

\* C28 witness: two different credentials were saved with one key for one app
\* and user; the per-user dict has that one entry and it holds the second.
C28_Witness ==
  /\ call.op = "save"
  /\ call.cred = CredB
  /\ written[call.scope].all = {CredA, CredB}
  /\ EntryKeys(store, call.scope[1], call.scope[2]) = {call.scope[3]}
  /\ Stored(store, call.scope) = CredB

\* ------------------------------------------------------------------ the web application
\* GET requests a client sends: routes of the application, the login routes
\* and the session-guarded probe route the integration test adds
Paths == {"/", "/dev-ui", "/list-apps", "/login", "/auth/google/callback",
          "/logout", "/test-auth-check"}

\* The answer of the application to GET path: the routes get_fast_api_app
\* registers, the two redirects only with web; the probe route reads
\* request.session, which no middleware of the application provides; a path
\* with no route is not found.  No answer sets a session cookie.
Respond(a, path) ==
  LET r == IF path = "/list-apps"
             THEN [status |-> 200, location |-> None]
           ELSE IF a.web /\ path \in {"/", "/dev-ui"}
             THEN [status |-> 307, location |-> "/dev-ui/"]
           ELSE IF path = "/test-auth-check"
             THEN [status |-> 500, location |-> None]
           ELSE [status |-> 404, location |-> None]
  IN [path |-> path, status |-> r.status, location |-> r.location,
      before |-> a.session, session |-> a.session]

\* The lifespan the caller passes: none, one that starts and stops, one that
\* raises before it yields, one that raises when it is exited
Lifespans == {None, "plain", "raises_entering", "raises_exiting"}

\* get_fast_api_app(web=web, lifespan=lifespan)
GetFastApiApp(web, lifespan) ==
  /\ ~webApp.built
  /\ webApp' = [NoApp EXCEPT !.built = TRUE, !.web = web, !.lifespan = lifespan]
  /\ UNCHANGED <<storeVars, toolVars>>

\* internal_lifespan that closes the dev server only after its normal exit
LifespanExitNoFinally(body_raises) ==
  /\ webApp.built /\ webApp.phase = "yielded"
  /\ LET exc == IF body_raises THEN "BodyError"
                ELSE IF webApp.lifespan = "raises_exiting" THEN "LifespanError"
                ELSE None
     IN webApp' = [webApp EXCEPT
          !.phase = "done", !.error = exc,
          !.closed = IF exc = None THEN @ + 1 ELSE @,
          !.log = @ \o (IF webApp.lifespan # None THEN <<"exit">> ELSE <<>>)
                    \o (IF exc = None THEN <<"close">> ELSE <<>>)]
  /\ UNCHANGED <<storeVars, toolVars>>

\* The application starts: internal_lifespan runs up to its yield. A
\* caller-supplied lifespan is entered first; when entering it raises, the
\* finally clause closes the dev server and the error propagates.
LifespanEnter ==
  /\ webApp.built /\ webApp.phase = "idle"
  /\ webApp' =
       IF webApp.lifespan = "raises_entering"
         THEN [webApp EXCEPT !.phase = "done", !.error = "LifespanError",
                             !.closed = @ + 1, !.log = <<"enter", "close">>]
       ELSE IF webApp.lifespan # None
         THEN [webApp EXCEPT !.phase = "yielded", !.log = <<"enter", "yield">>]
       ELSE [webApp EXCEPT !.phase = "yielded", !.log = <<"yield">>]
  /\ UNCHANGED <<storeVars, toolVars>>

\* The application stops, at shutdown or because its body raised:
\* internal_lifespan is resumed at its yield, a caller-supplied lifespan is
\* exited (and may raise), and the finally clause closes the dev server
LifespanExit(body_raises) ==
  /\ webApp.built /\ webApp.phase = "yielded"
  /\ webApp' = [webApp EXCEPT
       !.phase = "done",
       !.error = IF body_raises THEN "BodyError"
                 ELSE IF webApp.lifespan = "raises_exiting" THEN "LifespanError"
                 ELSE None,
       !.closed = @ + 1,
       !.log = @ \o (IF webApp.lifespan # None THEN <<"exit">> ELSE <<>>) \o <<"close">>]
  /\ UNCHANGED <<storeVars, toolVars>>

\* A client with one cookie jar sends GET path
Get(path) ==
  /\ webApp.built
  /\ Len(webApp.hist) < MaxRequests
  /\ LET r == Respond(webApp, path)
     IN webApp' = [webApp EXCEPT !.session = r.session, !.hist = Append(@, r)]
  /\ UNCHANGED <<storeVars, toolVars>>

NextWeb ==
  \/ \E web \in BOOLEAN, lifespan \in Lifespans : GetFastApiApp(web, lifespan)
  \/ LifespanEnter
  \/ \E body_raises \in BOOLEAN : LifespanExit(body_raises)
  \/ \E path \in Paths : Get(path)

SpecWeb == InitStore /\ [][NextWeb]_vars

\* ------------------------------------------------------------------ web session claims
LoggedIn(session) == "user" \in session

\* Request n is the callback that completes a login: the latest request
\* before it to /login or /logout is a /login
CompletesLogin(n) ==
  /\ webApp.hist[n].path = "/auth/google/callback"
  /\ \E m \in 1 .. n - 1 :
       /\ webApp.hist[m].path = "/login"
       /\ \A k \in m + 1 .. n - 1 : webApp.hist[k].path \notin {"/login", "/logout"}

\* C29: a /login followed by a successful /auth/google/callback (the identity
\* provider accepts the code and the state) establishes a session; in an
\* established session GET /logout redirects to "/" and clears the session;
\* in a session that is not established a request to the protected route is
\* redirected to /login.
C29_LogoutClearsSession ==
  \A n \in 1 .. Len(webApp.hist) :
    LET r == webApp.hist[n] IN
    /\ CompletesLogin(n) => LoggedIn(r.session)
    /\ (r.path = "/logout" /\ LoggedIn(r.before)) =>
         (r.status = 302 /\ r.location = "/" /\ ~LoggedIn(r.session))
    /\ (r.path = "/test-auth-check" /\ ~LoggedIn(r.before)) =>
         (r.status = 302 /\ r.location = "/login")

\* ------------------------------------------------------------------ wrapper equivalence claims
RunAsyncCall == fn.name = "run_async"

\* C31: built from the same AuthConfig and unauthenticated response and run on
\* the same outcome of the Credential Manager, the two wrappers never differ:
\* both invoke the body when there is no manager or a credential came back,
\* both record a consent request and return the configured-or-default pending
\* response when no credential came back, and both raise the manager's error.
C31_WrappersDecideAlike ==
  RunAsyncCall =>
    /\ fn.aft = fn.bat
    /\ fn.aft.body <=>
         (~HasCredentialsManager(fn.auth_config)
            \/ (fn.out.raised = None /\ fn.out.ret # NoCredential))
    /\ (HasCredentialsManager(fn.auth_config) /\ fn.out.raised = None
          /\ fn.out.ret = NoCredential) =>
         /\ fn.aft.requested /\ ~fn.aft.body
         /\ fn.aft.result =
              [kind |-> "return",
               value |-> IF fn.response \in {None, "", EmptyObject}
                           THEN "Pending User Authorization." ELSE fn.response]
    /\ (HasCredentialsManager(fn.auth_config) /\ fn.out.raised # None) =>
         /\ ~fn.aft.requested /\ ~fn.aft.body
         /\ fn.aft.result = [kind |-> "raise", value |-> fn.out.raised]

\* C31 witness: both wrappers, gated and given no credential, returned the
\* configured pending response
C31_Witness ==
  /\ RunAsyncCall
  /\ HasCredentialsManager(fn.auth_config)
  /\ fn.out = [ret |-> NoCredential, raised |-> None]
  /\ fn.aft.result = [kind |-> "return", value |-> "Please sign in."]
  /\ fn.bat.result = [kind |-> "return", value |-> "Please sign in."]
  /\ fn.bat.requested

\* ------------------------------------------------------------------ wrapper call claims
\* C32: in one run_async call of a gated tool load_auth_credential is awaited
\* exactly once and the body is invoked at most once; request_credential is
\* awaited exactly once when no credential was returned and never when one
\* was; no call both invokes the body and records a consent request.
C32_OneLoadOneOutcome ==
  \A i \in Invocations :
    (tool.credentials_manager /\ inv[i].pc # "idle") =>
      /\ Count(inv[i].trace, "load_auth_credential") = 1
      /\ Len(inv[i].body) <= 1
      /\ Count(inv[i].trace, "body") = Len(inv[i].body)
      /\ Len(inv[i].requested) <= 1
      /\ Count(inv[i].trace, "request_credential") = Len(inv[i].requested)
      /\ ~(inv[i].body # <<>> /\ inv[i].requested # <<>>)
      /\ (Done(i) /\ inv[i].mstate = "PENDING") => Len(inv[i].requested) = 1
      /\ inv[i].mstate = "READY" => inv[i].requested = <<>>
      /\ (Done(i) /\ inv[i].mstate = "READY") => Len(inv[i].body) = 1

\* C32 witness: of two finished calls of one gated tool, one got no credential
\* and recorded its one consent request, the other got a credential and
\* invoked the body once
C32_Witness ==
  /\ tool.credentials_manager
  /\ \E i, j \in Invocations :
       /\ Done(i) /\ inv[i].mstate = "PENDING"
       /\ Len(inv[i].requested) = 1 /\ inv[i].body = <<>>
       /\ Done(j) /\ inv[j].mstate = "READY"
       /\ Len(inv[j].body) = 1 /\ inv[j].requested = <<>>
       /\ Count(inv[j].trace, "load_auth_credential") = 1

\* The credential run_async hands to _run_async_impl in invocation i
WrapperCredential(i) ==
  IF tool.credentials_manager THEN inv[i].credential ELSE NoCredential

\* C33: a wrapped function that has a parameter named credential receives
\* under that name the wrapper's credential (the manager's, or none for an
\* ungated tool) and never the value the caller put into args under the key
\* credential; the caller's other arguments arrive as they were.
C33_CallerCredentialNeverReaches ==
  \A i \in Invocations :
    (tool.cls = "AuthenticatedFunctionTool" /\ tool.func_has_credential
       /\ inv[i].body # <<>>) =>
      /\ "credential" \in DOMAIN inv[i].body[1].args
      /\ inv[i].body[1].args["credential"] = WrapperCredential(i)
      /\ inv[i].body[1].args["credential"] # CallerCred
      /\ inv[i].body[1].args["query"] = inv[i].args["query"]
      /\ tool.credentials_manager => inv[i].body[1].args["credential"] # NoCredential

\* C33 witness: the caller's args carried a credential and the function of a
\* gated tool received the manager's credential instead; the function of an
\* ungated tool would receive none
C33_Witness ==
  /\ tool.cls = "AuthenticatedFunctionTool" /\ tool.func_has_credential
  /\ tool.credentials_manager
  /\ \E i \in Invocations :
       /\ "credential" \in DOMAIN inv[i].args
       /\ inv[i].args["credential"] = CallerCred
       /\ Len(inv[i].body) = 1
       /\ inv[i].body[1].args["credential"] = inv[i].credential
       /\ inv[i].credential.auth_type = "OAUTH2"

\* Both wrappers were run on an outcome that made them return the pending response
PendingCall == RunAsyncCall /\ fn.aft.gate = "request" /\ fn.bat.gate = "request"

\* C34: the pending response returned by either wrapper is the caller-supplied
\* unauthenticated_response only when that value is truthy; None, the empty
\* string and the empty object are replaced by "Pending User Authorization.".
C34_EmptyResponseIsReplaced ==
  PendingCall =>
    /\ fn.aft.result.kind = "return" /\ fn.bat.result.kind = "return"
    /\ fn.response \in {"Please sign in.", ObjectResponse} =>
         /\ fn.aft.result.value = fn.response
         /\ fn.bat.result.value = fn.response
    /\ fn.response \in {None, "", EmptyObject} =>
         /\ fn.aft.result.value = "Pending User Authorization."
         /\ fn.bat.result.value = "Pending User Authorization."

\* C34 witness: a tool constructed with an empty object as its
\* unauthenticated response returned the default pending response
C34_Witness ==
  /\ PendingCall
  /\ fn.response = EmptyObject
  /\ fn.bat.result = [kind |-> "return", value |-> "Pending User Authorization."]

\* The tool was constructed with an AuthConfig that has no auth_scheme
SchemelessConfig == tool.auth_config # NoAuthConfig /\ tool.auth_config.auth_scheme = None

\* C35: a tool constructed with an AuthConfig without auth_scheme has no
\* Credential Manager and behaves like a tool without AuthConfig: every call
\* invokes the body at once with no credential, nothing is looked up or
\* stored, no consent request is recorded and the pending response is never
\* returned, although the AuthConfig carries a raw credential.
C35_SchemelessConfigIsUngated ==
  SchemelessConfig =>
    /\ ~tool.credentials_manager
    /\ store = EmptyDict
    /\ \A i \in Invocations :
         inv[i].pc # "idle" =>
           /\ inv[i].body = <<BodyCall(NewTool(tool.cls, tool.func_has_credential,
                                               NoAuthConfig, tool.response),
                                       inv[i].args, NoCredential)>>
           /\ inv[i].body[1].credential = NoCredential
           /\ (tool.cls = "AuthenticatedFunctionTool" /\ tool.func_has_credential) =>
                inv[i].body[1].args["credential"] = NoCredential
           /\ inv[i].mstate = "NONE"
           /\ inv[i].credential = NoCredential
           /\ inv[i].requested = <<>>
           /\ inv[i].trace \in {<<"body">>, <<"body", "return_result">>}
           /\ Done(i) => inv[i].result = [kind |-> "return", value |-> "tool result"]

\* C35 witness: a tool whose AuthConfig has a raw credential but no scheme
\* finished a call with the body's result
C35_Witness ==
  /\ SchemelessConfig
  /\ tool.auth_config.raw_auth_credential = ApiKeyCred
  /\ \E i \in Invocations :
       /\ Done(i) /\ Len(inv[i].body) = 1
       /\ inv[i].result = [kind |-> "return", value |-> "tool result"]

\* ------------------------------------------------------------------ store frame claims
\* The value the entry of scope s holds
Entry(st, s) == st[s[1]][s[2]][s[3]]

\* This step is a direct save_credential call
SaveStep == calls' = calls + 1 /\ call'.op = "save"

\* C36: save_credential writes exactly one entry: after it the entry of the
\* call's (app, user, credential key) holds the AuthConfig's exchanged
\* credential, never its raw credential, and every other scope key has the
\* entry it had, or none as before.  A save with an empty exchanged
\* credential stores an empty value in the entry, and a load of that scope key
\* then reports a miss.
C36_SaveWritesOneEntry ==
  /\ [][SaveStep =>
          /\ HasEntry(store', call'.scope)
          /\ Entry(store', call'.scope) = call'.cred
          /\ Entry(store', call'.scope) # RawCred
          /\ \A s \in Scopes \ {call'.scope} :
               /\ HasEntry(store', s) <=> HasEntry(store, s)
               /\ HasEntry(store, s) => Entry(store', s) = Entry(store, s)
               /\ Stored(store', s) = Stored(store, s)]_vars
  /\ [](\A s \in Scopes :
          (written[s] # NeverWritten /\ written[s].last = NoCredential) =>
            /\ HasEntry(store, s)
            /\ Entry(store, s) = NoCredential
            /\ Stored(store, s) = NoCredential)
  /\ [](call.op = "load" /\ written[call.scope] # NeverWritten
          /\ written[call.scope].last = NoCredential =>
            (call.ret = NoCredential /\ call.raised = None))

\* C36 witness: a credential was saved under a scope key, then a save with an
\* empty exchanged credential, and the load that followed reported a miss
C36_Witness ==
  /\ call.op = "load"
  /\ written[call.scope].all = {CredA, NoCredential}
  /\ written[call.scope].last = NoCredential
  /\ HasEntry(store, call.scope)
  /\ call.ret = NoCredential

\* This step is a direct load_credential call
LoadStep == calls' = calls + 1 /\ call'.op = "load"

\* Two stores answer every load alike and have the same entries
SameContent(st1, st2) ==
  \A s \in Scopes :
    /\ Stored(st1, s) = Stored(st2, s)
    /\ HasEntry(st1, s) <=> HasEntry(st2, s)

\* C37: load_credential changes no observable store content: after it a load
\* of any scope key returns what it would have returned before it, no entry
\* has appeared or gone, and a save made next leaves the same content as it
\* would have left without the load; all the load may add is an empty
\* per-app or per-user container.
C37_LoadChangesNoContent ==
  [][LoadStep =>
       /\ SameContent(store, store')
       /\ \A a \in DOMAIN store : a \in DOMAIN store' /\
            \A u \in DOMAIN store[a] : u \in DOMAIN store'[a] /\ store'[a][u] = store[a][u]
       /\ \A a \in DOMAIN store' : \A u \in DOMAIN store'[a] :
            (a \notin DOMAIN store \/ u \notin DOMAIN store[a]) => store'[a][u] = EmptyDict
       /\ \A s \in Scopes, c \in StoreCreds :
            SameContent(
              SaveCredential(store, AuthConfig("oauth2", RawCred, c, s[3]),
                             ToolContext(s[1], s[2])),
              SaveCredential(store', AuthConfig("oauth2", RawCred, c, s[3]),
                             ToolContext(s[1], s[2])))]_vars

\* C37 witness: a load for an app and user the store had not seen created
\* their empty containers, returned no credential, and the credential stored
\* under another scope key is still what a load of that key returns
C37_Witness ==
  /\ call.op = "load" /\ call.ret = NoCredential
  /\ written[call.scope] = NeverWritten
  /\ call.scope[1] \in DOMAIN store
  /\ call.scope[2] \in DOMAIN store[call.scope[1]]
  /\ store[call.scope[1]][call.scope[2]] = EmptyDict
  /\ \E s \in Scopes : written[s].all = {CredB} /\ Stored(store, s) = CredB

\* ------------------------------------------------------------------ session helper claims
\* The token endpoint create_oauth2_session reads from the scheme it was called with
SchemeEndpoint ==
  IF fn.scheme.type = "openIdConnect" THEN fn.scheme.token_endpoint
  ELSE IF fn.scheme.type = "oauth2" /\ fn.scheme.flows.authorizationCode # NoFlow
    THEN fn.scheme.flows.authorizationCode.tokenUrl
  ELSE None

\* C38: create_oauth2_session gives no session and no endpoint whenever the
\* credential is absent or has no OAuth2 payload, no client id or no client
\* secret, under every scheme; and every result is either no session with no
\* endpoint, or a session made from the credential's client id, client secret,
\* redirect URI and state together with the endpoint read from the scheme.
\* The call changes nothing but its result.
C38_IncompleteCredentialNoSession ==
  /\ [](SessionCall =>
          /\ ~CompleteCredential => fn.result = NoSessionResult
          /\ \/ fn.result = NoSessionResult
             \/ /\ fn.result.session # NoSession
                /\ fn.result.token_endpoint # None
                /\ fn.result.token_endpoint = SchemeEndpoint
                /\ fn.result.session.client_id = fn.credential.oauth2.client_id
                /\ fn.result.session.client_secret = fn.credential.oauth2.client_secret
                /\ fn.result.session.redirect_uri = fn.credential.oauth2.redirect_uri
                /\ fn.result.session.state = fn.credential.oauth2.state)
  /\ [][fn'.name = "create_oauth2_session" => UNCHANGED <<storeVars, tool, inv>>]_vars

\* C38 witness: under a scheme that has a token endpoint, a credential with a
\* client id and an empty client secret got no session and no endpoint
C38_Witness ==
  /\ SessionCall
  /\ fn.scheme.type = "openIdConnect" /\ fn.scheme.token_endpoint = "https://oidc/token"
  /\ fn.credential # NoAuthCredential /\ fn.credential.oauth2 # NoOAuth2
  /\ fn.credential.oauth2.client_id = "client"
  /\ fn.credential.oauth2.client_secret = ""
  /\ fn.result = NoSessionResult

UpdateCall == fn.name = "update_credential_with_tokens"

\* The whole number a field of the token response stands for, or the empty
\* value when the response lacks the field or has zero in it
ResponseInt(key) ==
  IF key \in DOMAIN fn.tokens /\ fn.tokens[key] # 0
    THEN fn.tokens[key] \div Tenths ELSE NoneInt

\* C40: update_credential_with_tokens changes only access_token,
\* refresh_token, expires_at and expires_in of the credential's OAuth2
\* payload: client id, client secret, redirect URI, state and auth URI are as
\* they were, the payload has the same fields, and expires_at and expires_in
\* are the integer value of the response field, or empty when the response
\* lacks the field or has zero in it.
C40_OnlyTokenFieldsChange ==
  UpdateCall =>
    /\ DOMAIN fn.result = DOMAIN fn.oauth2
    /\ \A f \in {"client_id", "client_secret", "redirect_uri", "state", "auth_uri"} :
         fn.result[f] = fn.oauth2[f]
    /\ fn.result.expires_at = ResponseInt("expires_at")
    /\ fn.result.expires_in = ResponseInt("expires_in")
    /\ fn.result.access_token \in {None, "new-at"}
    /\ fn.result.refresh_token \in {None, "new-rt"}

\* C40 witness: a payload with expiry fields was updated from a response whose
\* expires_at is a fraction and whose expires_in is zero
C40_Witness ==
  /\ UpdateCall
  /\ fn.oauth2.expires_at = 1 /\ fn.oauth2.expires_in = 3600
  /\ fn.tokens = Tokens("new-at", "new-rt", 25, 0)
  /\ fn.result.expires_at = 2 /\ fn.result.expires_in = NoneInt
  /\ fn.result.state = "state" /\ fn.result.client_secret = "secret"

\* ------------------------------------------------------------------ lifespan claims
LifespanOver == webApp.phase = "done"
Yielded == Has(webApp.log, "yield")

\* C39 as stated: the lifespan closes the dev server exactly once when the
\* application has stopped, with or without a caller-supplied lifespan and
\* also when that lifespan or the application body raises; close is never
\* called before the lifespan has yielded.
C39_ClosedOnceAfterYield ==
  /\ webApp.closed <= 1
  /\ LifespanOver => webApp.closed = 1
  /\ webApp.closed >= 1 => Before(webApp.log, "yield", "close")

\* C39, amended: the lifespan closes the dev server exactly once when the
\* application has stopped, with or without a caller-supplied lifespan and
\* also when that lifespan or the application body raises; close is never
\* called before the lifespan has yielded, unless the caller-supplied
\* lifespan raises before it yields: then the lifespan never yields, close is
\* called once and the error propagates.
C39_ClosedOnceWhenOver ==
  /\ webApp.closed <= 1
  /\ Count(webApp.log, "close") = webApp.closed
  /\ LifespanOver <=> webApp.closed = 1
  /\ webApp.phase = "yielded" => (Yielded /\ webApp.closed = 0)
  /\ webApp.closed = 1 =>
       /\ webApp.log[Len(webApp.log)] = "close"
       /\ IF webApp.lifespan = "raises_entering"
            THEN ~Yielded /\ webApp.error = "LifespanError"
            ELSE Before(webApp.log, "yield", "close")
       /\ (webApp.lifespan # None /\ Yielded) => Before(webApp.log, "exit", "close")

\* C39 witness: the application body raised under a caller-supplied lifespan
\* that raises when exited, and the dev server was closed once, after the
\* yield and after the caller's lifespan was exited
C39_Witness ==
  /\ LifespanOver
  /\ webApp.lifespan = "raises_exiting"
  /\ webApp.error = "BodyError"
  /\ webApp.log = <<"enter", "yield", "exit", "close">>
  /\ webApp.closed = 1

====
